---- MODULE Spec2Model ----
(***************************************************************************)
(* Model of the BudgetAssistant retrieval-augmented-generation pipeline:   *)
(* services/ragService.ts (answerQuery, cosine) over services/dbService.ts *)
(* (documents and chat_memory tables).  Two revisions of ragService.ts are  *)
(* in the repository: the Gemma one (BudgetAssistant/services) and the      *)
(* Granite one (unnamed/part_003, lines 1-278); the variable rev says which *)
(* one is deployed.                                                         *)
(*                                                                         *)
(* Texts are sequences of one-character strings, so that trim(), replace()  *)
(* and the regular expression of the rewriter are computed, not assumed.    *)
(***************************************************************************)
EXTENDS Integers, Sequences, FiniteSets, TLC

VARIABLES
    rev,      \* the revision of ragService.ts that is deployed
    chat,     \* the chat_memory table
    docs,     \* the documents table
    nextId,   \* the number of ids generated so far, plus one
    calls,    \* the answerQuery calls
    deleted,  \* the ids that deleteDocument was called with
    flags,    \* the app_state table
    ingest,   \* the run of ingestInitialDataIfNeeded
    upload,   \* the run of handleUpload
    pure,     \* arguments and result of a function applied on its own
    startup,  \* the setup screen: the run of checkAndInit and the screen shown
    reset,    \* the run of resetRAGDatabase under way
    db        \* dbService: dbPromise, the initialisation attempts, the tables

\* the state outside the query pipeline and the documents table
sysVars == <<startup, reset, db>>

appVars == <<flags, ingest, upload, pure, sysVars>>

vars == <<rev, chat, docs, nextId, calls, deleted, appVars>>

(***************************************************************************)
(* Bounds of the model.                                                    *)
(***************************************************************************)
MaxChat == 4
MaxDocs == 2
MaxK == 1
MaxTokens == 1
MaxLimit == 3
MaxStream == 3
MaxInserts == 3
MaxIndexK == 2

Revisions == {"gemma", "granite"}
Callers == {1}

(***************************************************************************)
(* Text helpers.                                                           *)
(***************************************************************************)
Rep(n, c) == [i \in 1..n |-> c]

Min2(a, b) == IF a < b THEN a ELSE b

IsSpace(c) == c \in {" ", "\n"}

RECURSIVE TrimStart(_)
TrimStart(s) ==
    IF s = <<>> THEN <<>>
    ELSE IF IsSpace(Head(s)) THEN TrimStart(Tail(s)) ELSE s

RECURSIVE TrimEnd(_)
TrimEnd(s) ==
    IF s = <<>> THEN <<>>
    ELSE IF IsSpace(s[Len(s)]) THEN TrimEnd(SubSeq(s, 1, Len(s) - 1)) ELSE s

\* String.prototype.trim
Trim(s) == TrimEnd(TrimStart(s))

\* s.replace(/["']/g, '')
StripQuotes(s) == SelectSeq(s, LAMBDA c : c \notin {"\"", "'"})

\* s.slice(0, n)
Slice0(s, n) == SubSeq(s, 1, Min2(Len(s), n))

(***************************************************************************)
(* Ambiguity test of the rewriter: vagueWords.test(query), and the length   *)
(* proxy of the Gemma revision.                                            *)
(***************************************************************************)
UpperSeq == <<"A","B","C","D","E","F","G","H","I","J","K","L","M",
              "N","O","P","Q","R","S","T","U","V","W","X","Y","Z">>

LowerSeq == <<"a","b","c","d","e","f","g","h","i","j","k","l","m",
              "n","o","p","q","r","s","t","u","v","w","x","y","z">>

DigitChars == {"0","1","2","3","4","5","6","7","8","9"}

\* the /i flag: letters compare by case folding
Lower(c) ==
    IF \E n \in 1..26 : UpperSeq[n] = c
    THEN LowerSeq[CHOOSE n \in 1..26 : UpperSeq[n] = c]
    ELSE c

\* \w of the regular expression
IsWordChar(c) ==
    \/ \E n \in 1..26 : UpperSeq[n] = c \/ LowerSeq[n] = c
    \/ c \in DigitChars
    \/ c = "_"

VagueWordList ==
    { <<"t","h","a","t">>, <<"t","h","i","s">>, <<"i","t">>,
      <<"t","h","o","s","e">>, <<"t","h","e","s","e">>,
      <<"h","i","m">>, <<"h","e","r">>, <<"t","h","e","m">>,
      <<"t","h","a","t"," ","o","n","e">>,
      <<"t","h","o","s","e"," ","o","n","e","s">> }

MatchAt(q, i, w) ==
    /\ i + Len(w) - 1 <= Len(q)
    /\ \A k \in 1..Len(w) : Lower(q[i + k - 1]) = w[k]

\* /\b(that|this|it|...)\b/i.test(q)
VagueWordsTest(q) ==
    \E i \in 1..Len(q), w \in VagueWordList :
        /\ MatchAt(q, i, w)
        /\ (IF i = 1 THEN TRUE ELSE ~IsWordChar(q[i - 1]))
        /\ (IF i + Len(w) - 1 = Len(q) THEN TRUE
            ELSE ~IsWordChar(q[i + Len(w)]))

VagueLength == 25

\* a variant without the length proxy
IsVagueWordsOnly(r, q) == VagueWordsTest(q)

IsVague(r, q) ==
    IF r = "gemma" THEN VagueWordsTest(q) \/ Len(q) < VagueLength
    ELSE VagueWordsTest(q)

\* getChatHistory(2) in the Gemma revision, getChatHistory(4) in the Granite one
HistoryLimit(r) == IF r = "gemma" THEN 2 ELSE 4

\* if (rewritten.length > 10), > 5 in the Granite revision
RewriteMinLen(r) == IF r = "gemma" THEN 10 ELSE 5

\* rewriteResult.text.trim().replace(/["']/g, '')
CleanRewrite(t) == StripQuotes(Trim(t))

\* the retrieval query after a rewrite that returned text t
AcceptRewrite(r, q, t) ==
    IF Len(CleanRewrite(t)) > RewriteMinLen(r) THEN CleanRewrite(t) ELSE q

(***************************************************************************)
(* dbService.ts: the chat_memory table, rows in rowid order, and the        *)
(* documents table, a set of rows with their rowid.                        *)
(***************************************************************************)
\* a variant that loses the assistant's turn
AddChatMessageUserOnly(ch, role, text) ==
    IF role = "assistant" THEN ch ELSE Append(ch, [role |-> role, text |-> text])

\* INSERT INTO chat_memory (id, role, text)
AddChatMessage(ch, role, text) == Append(ch, [role |-> role, text |-> text])

\* SELECT role, text FROM chat_memory ORDER BY rowid ASC LIMIT ?
GetChatHistory(ch, limit) == SubSeq(ch, 1, Min2(limit, Len(ch)))

\* DELETE FROM chat_memory
ClearChatMemory(ch) == <<>>

\* the rowid SQLite gives a new row of a table without INTEGER PRIMARY KEY:
\* one more than the largest rowid in the table
NextRowid(ds) ==
    IF ds = {} THEN 1
    ELSE (CHOOSE r \in ds : \A o \in ds : o.rowid <= r.rowid).rowid + 1

\* INSERT INTO documents (id, text, embedding)
AddDocument(ds, id, text, embedding) ==
    ds \cup {[rowid |-> NextRowid(ds), id |-> id, text |-> text,
              embedding |-> embedding]}

\* the rows of ds by descending rowid
RECURSIVE ByRowidDesc(_)
ByRowidDesc(ds) ==
    IF ds = {} THEN <<>>
    ELSE LET top == CHOOSE r \in ds : \A o \in ds : o.rowid <= r.rowid
         IN  <<top>> \o ByRowidDesc(ds \ {top})

\* the rows of ds by ascending rowid
RECURSIVE ByRowidAsc(_)
ByRowidAsc(ds) ==
    IF ds = {} THEN <<>>
    ELSE LET low == CHOOSE r \in ds : \A o \in ds : o.rowid >= r.rowid
         IN  <<low>> \o ByRowidAsc(ds \ {low})

\* one row of the result set: { id, text, embedding }
DocOf(row) == [id |-> row.id, text |-> row.text, embedding |-> row.embedding]

\* a variant with ORDER BY rowid ASC
GetAllDocsAscending(ds) ==
    LET rows == ByRowidAsc(ds) IN [i \in 1..Len(rows) |-> DocOf(rows[i])]

\* SELECT id, text, embedding FROM documents ORDER BY rowid DESC
GetAllDocs(ds) ==
    LET rows == ByRowidDesc(ds) IN [i \in 1..Len(rows) |-> DocOf(rows[i])]

\* a variant with the wrong column in the WHERE clause
DeleteDocumentByRowid(ds, id) == {d \in ds : d.rowid # id}

\* DELETE FROM documents WHERE id = ?
DeleteDocument(ds, id) == {d \in ds : d.id # id}

(***************************************************************************)
(* Cosine similarity.  A score is kept as the exact triple (dot, |a|^2,    *)
(* |b|^2); its value is dot / (sqrt(na) * sqrt(nb)), and 0 when the         *)
(* denominator is 0.  Comparisons are made on squares.                      *)
(***************************************************************************)
RECURSIVE DotUpTo(_, _, _)
DotUpTo(a, b, n) == IF n = 0 THEN 0 ELSE DotUpTo(a, b, n - 1) + a[n] * b[n]

cosine(a, b) ==
    [dot |-> DotUpTo(a, b, Len(a)),
     na |-> DotUpTo(a, a, Len(a)),
     nb |-> DotUpTo(b, b, Len(a))]

(***************************************************************************)
(* The arithmetic of the last two lines of cosine, in IEEE 754 binary64    *)
(* (the number type of JavaScript): Math.sqrt, * and / each round their    *)
(* exact result to 53 significant bits, to nearest, ties to even.  A       *)
(* natural number below 2^112 is a sequence of NLimbs limbs of LimbBits    *)
(* bits, least significant first; a double is a sign s, a significand m    *)
(* of 53 bits and an exponent e, of value s * m * 2^e.  The sums of the    *)
(* loop are small integers, which binary64 holds exactly.                  *)
(***************************************************************************)
SignificandBits == 53

LimbBits == 14

NLimbs == 8

Base == 2 ^ LimbBits

TotalBits == NLimbs * LimbBits

Max2(a, b) == IF a < b THEN b ELSE a

ZeroLimbs == [i \in 1..NLimbs |-> 0]

\* the limbs of n, for 0 <= n < Base * Base
LimbsOf(n) ==
    [i \in 1..NLimbs |->
        IF i = 1 THEN n % Base ELSE IF i = 2 THEN n \div Base ELSE 0]

LimbAt(x, i) == IF i >= 1 /\ i <= NLimbs THEN x[i] ELSE 0

\* bit p of x, p = 1 for the least significant
BitAt(x, p) ==
    IF p < 1 \/ p > TotalBits THEN 0
    ELSE (x[(p - 1) \div LimbBits + 1] \div (2 ^ ((p - 1) % LimbBits))) % 2

\* the number of bits of x
BitLen(x) ==
    IF x = ZeroLimbs THEN 0
    ELSE LET i == CHOOSE j \in 1..NLimbs :
                     x[j] # 0 /\ \A k \in (j + 1)..NLimbs : x[k] = 0
             b == CHOOSE c \in 1..LimbBits :
                     x[i] \div (2 ^ c) = 0 /\ x[i] \div (2 ^ (c - 1)) # 0
         IN  (i - 1) * LimbBits + b

\* floor(x / 2^k), limb by limb from limb i
RECURSIVE ShrFrom(_, _, _, _, _)
ShrFrom(x, q, r, i, acc) ==
    IF i > NLimbs THEN acc
    ELSE ShrFrom(x, q, r, i + 1,
                 Append(acc, (LimbAt(x, i + q) \div (2 ^ r))
                     + (LimbAt(x, i + q + 1) % (2 ^ r)) * (2 ^ (LimbBits - r))))

ShrBits(x, k) == ShrFrom(x, k \div LimbBits, k % LimbBits, 1, <<>>)

\* x * 2^k, for a result below 2^TotalBits, limb by limb from limb i
RECURSIVE ShlFrom(_, _, _, _, _)
ShlFrom(x, q, r, i, acc) ==
    IF i > NLimbs THEN acc
    ELSE ShlFrom(x, q, r, i + 1,
                 Append(acc, ((LimbAt(x, i - q) * (2 ^ r)) % Base)
                     + (LimbAt(x, i - q - 1) \div (2 ^ (LimbBits - r)))))

ShlBits(x, k) == ShlFrom(x, k \div LimbBits, k % LimbBits, 1, <<>>)

RECURSIVE AddFrom(_, _, _, _, _)
AddFrom(x, y, i, carry, acc) ==
    IF i > NLimbs THEN acc
    ELSE LET t == x[i] + y[i] + carry
         IN  AddFrom(x, y, i + 1, t \div Base, Append(acc, t % Base))

AddLimbs(x, y) == AddFrom(x, y, 1, 0, <<>>)

\* x - y for x >= y
RECURSIVE SubFrom(_, _, _, _, _)
SubFrom(x, y, i, borrow, acc) ==
    IF i > NLimbs THEN acc
    ELSE LET t == x[i] - y[i] - borrow
         IN  SubFrom(x, y, i + 1, IF t < 0 THEN 1 ELSE 0,
                     Append(acc, IF t < 0 THEN t + Base ELSE t))

SubLimbs(x, y) == SubFrom(x, y, 1, 0, <<>>)

LessLimbs(x, y) ==
    \E i \in 1..NLimbs :
        x[i] < y[i] /\ \A j \in (i + 1)..NLimbs : x[j] = y[j]

\* column k of the schoolbook product of x and y
RECURSIVE ColumnSum(_, _, _, _)
ColumnSum(x, y, k, i) ==
    IF i > k THEN 0
    ELSE x[i] * LimbAt(y, k + 1 - i) + ColumnSum(x, y, k, i + 1)

RECURSIVE CarryFrom(_, _, _, _)
CarryFrom(cols, i, carry, acc) ==
    IF i > NLimbs THEN acc
    ELSE LET t == cols[i] + carry
         IN  CarryFrom(cols, i + 1, t \div Base, Append(acc, t % Base))

\* x * y for x, y below 2^(TotalBits / 2)
MulLimbs(x, y) ==
    CarryFrom([k \in 1..NLimbs |-> ColumnSum(x, y, k, 1)], 1, 0, <<>>)

\* e, with v computed first: the loops below run their iterations in
\* order, each on the finished state of the one before
Then(v, e) == IF v = v THEN e ELSE e

\* one step of the long division of n by d, at bit p of n
DivStep(st, n, d, p) ==
    LET r2 == AddLimbs(ShlBits(st.r, 1), LimbsOf(BitAt(n, p)))
        q2 == ShlBits(st.q, 1)
    IN  IF LessLimbs(r2, d) THEN [q |-> q2, r |-> r2]
        ELSE [q |-> AddLimbs(q2, LimbsOf(1)), r |-> SubLimbs(r2, d)]

\* the steps for the bits hi, hi - 1, ..., lo of n
RECURSIVE DivRange(_, _, _, _, _)
DivRange(st, n, d, hi, lo) ==
    IF hi < lo THEN st
    ELSE IF hi = lo THEN DivStep(st, n, d, hi)
    ELSE LET mid == (hi + lo) \div 2
             upper == DivRange(st, n, d, hi, mid + 1)
         IN  Then(upper, DivRange(upper, n, d, mid, lo))

\* quotient and remainder of n by d, d > 0
DivLimbs(n, d) ==
    DivRange([q |-> ZeroLimbs, r |-> ZeroLimbs], n, d, BitLen(n), 1)

\* one step of the digit-by-digit square root, at the power of four 4^j
SqrtStep(st, j) ==
    LET bit == ShlBits(LimbsOf(1), 2 * j)
        t == AddLimbs(st.q, bit)
    IN  IF LessLimbs(st.r, t) THEN [q |-> ShrBits(st.q, 1), r |-> st.r]
        ELSE [q |-> AddLimbs(ShrBits(st.q, 1), bit), r |-> SubLimbs(st.r, t)]

\* the steps for 4^hi, 4^(hi - 1), ..., 4^lo
RECURSIVE SqrtRange(_, _, _)
SqrtRange(st, hi, lo) ==
    IF hi < lo THEN st
    ELSE IF hi = lo THEN SqrtStep(st, hi)
    ELSE LET mid == (hi + lo) \div 2
             upper == SqrtRange(st, hi, mid + 1)
         IN  Then(upper, SqrtRange(upper, mid, lo))

\* floor(sqrt(n)) and the remainder n - floor(sqrt(n))^2
SqrtLimbs(n) ==
    SqrtRange([q |-> ZeroLimbs, r |-> n], Max2(BitLen(n) - 1, 0) \div 2, 0)

\* n > 0 (with sticky: n plus a fraction below one unit) rounded to 53
\* significant bits, to nearest, ties to even: the significand and the
\* exponent of its last bit
Round53(n, sticky) ==
    IF BitLen(n) <= SignificandBits
    THEN [m |-> ShlBits(n, SignificandBits - BitLen(n)),
          e |-> BitLen(n) - SignificandBits]
    ELSE LET drop == BitLen(n) - SignificandBits
             top == ShrBits(n, drop)
             rest == sticky \/ \E p \in 1..(drop - 1) : BitAt(n, p) = 1
             up == BitAt(n, drop) = 1 /\ (rest \/ BitAt(top, 1) = 1)
             m == IF up THEN AddLimbs(top, LimbsOf(1)) ELSE top
         IN  IF BitLen(m) > SignificandBits
             THEN [m |-> ShrBits(m, 1), e |-> drop + 1]
             ELSE [m |-> m, e |-> drop]

DoubleZero == [s |-> 0, m |-> ZeroLimbs, e |-> 0]

\* the double of a small integer
DoubleOf(n) ==
    IF n = 0 THEN DoubleZero
    ELSE LET r == Round53(LimbsOf(IF n < 0 THEN 0 - n ELSE n), FALSE)
         IN  [s |-> IF n < 0 THEN 0 - 1 ELSE 1, m |-> r.m, e |-> r.e]

\* Math.sqrt(x) for x >= 0
DoubleSqrt(x) ==
    IF x.s = 0 THEN DoubleZero
    ELSE LET odd == x.e % 2 # 0
             m2 == IF odd THEN ShlBits(x.m, 1) ELSE x.m
             e2 == IF odd THEN x.e - 1 ELSE x.e
             root == SqrtLimbs(ShlBits(m2, SignificandBits + 3))
             r == Round53(root.q, root.r # ZeroLimbs)
         IN  [s |-> 1, m |-> r.m,
              e |-> (e2 - (SignificandBits + 3)) \div 2 + r.e]

\* x * y
DoubleMul(x, y) ==
    IF x.s = 0 \/ y.s = 0 THEN DoubleZero
    ELSE LET r == Round53(MulLimbs(x.m, y.m), FALSE)
         IN  [s |-> x.s * y.s, m |-> r.m, e |-> x.e + y.e + r.e]

\* x / y for y # 0
DoubleDiv(x, y) ==
    IF x.s = 0 THEN DoubleZero
    ELSE LET d == DivLimbs(ShlBits(x.m, SignificandBits + 3), y.m)
             r == Round53(d.q, d.r # ZeroLimbs)
         IN  [s |-> x.s * y.s, m |-> r.m,
              e |-> x.e - y.e - (SignificandBits + 3) + r.e]

\* const denominator = Math.sqrt(normA) * Math.sqrt(normB);
\* return denominator === 0 ? 0 : dot / denominator;
ScoreValue(s) ==
    LET denominator ==
            DoubleMul(DoubleSqrt(DoubleOf(s.na)), DoubleSqrt(DoubleOf(s.nb)))
    IN  IF denominator.s = 0 THEN DoubleZero
        ELSE DoubleDiv(DoubleOf(s.dot), denominator)

\* denominator === 0 ? 0 : dot / denominator, as a fraction num / sqrt(den)
ScoreNum(s) == IF s.na * s.nb = 0 THEN 0 ELSE s.dot

ScoreDen(s) == IF s.na * s.nb = 0 THEN 1 ELSE s.na * s.nb

\* value(s1) < value(s2)
ScoreLess(s1, s2) ==
    LET n1 == ScoreNum(s1)
        n2 == ScoreNum(s2)
        l == n1 * n1 * ScoreDen(s2)
        r == n2 * n2 * ScoreDen(s1)
    IN  IF n1 >= 0 /\ n2 >= 0 THEN l < r
        ELSE IF n1 < 0 /\ n2 < 0 THEN l > r
        ELSE n1 < 0

\* const threshold = 0.45 (Granite revision), as 45 / 100
ThresholdNum == 45

ThresholdDen == 100

\* value(s) >= 0.45
ScoreAtLeastThreshold(s) ==
    /\ ScoreNum(s) > 0
    /\ ScoreNum(s) * ScoreNum(s) * ThresholdDen * ThresholdDen
         >= ThresholdNum * ThresholdNum * ScoreDen(s)

\* a variant without the relevance filter
PassesFilterAlways(r, s) == TRUE

\* .filter(doc => doc.score >= threshold): only the Granite revision filters
PassesFilter(r, s) == IF r = "granite" THEN ScoreAtLeastThreshold(s) ELSE TRUE

\* Array.prototype.sort((a, b) => b.score - a.score): stable, descending
RECURSIVE InsertByScore(_, _)
InsertByScore(sorted, x) ==
    IF sorted = <<>> THEN <<x>>
    ELSE IF ScoreLess(sorted[Len(sorted)].score, x.score)
         THEN Append(InsertByScore(SubSeq(sorted, 1, Len(sorted) - 1), x),
                     sorted[Len(sorted)])
         ELSE Append(sorted, x)

RECURSIVE SortByScore(_)
SortByScore(s) ==
    IF s = <<>> THEN <<>>
    ELSE InsertByScore(SortByScore(SubSeq(s, 1, Len(s) - 1)), s[Len(s)])

\* allDocs.map(score).filter(threshold).sort(desc).slice(0, topK)
SelectTopK(r, qe, allDocs, topK) ==
    LET mapped == [i \in 1..Len(allDocs) |->
                     [doc |-> allDocs[i],
                      score |-> cosine(qe, allDocs[i].embedding)]]
        kept == SelectSeq(mapped, LAMBDA m : PassesFilter(r, m.score))
    IN  Slice0(SortByScore(kept), topK)

(***************************************************************************)
(* The prompt, as the sequence of its segments.                            *)
(***************************************************************************)
Seg(kind, role, text) == [kind |-> kind, role |-> role, text |-> text]

\* d.text.slice(0, 1000)
MaxChunkChars == 1000

\* Gemma: scored.map(d => `[Source Chunk i (Score ...):\n text]`) joined
ContextTextGemma(scored) ==
    [i \in 1..Len(scored) |->
        Seg("chunk", "", Slice0(scored[i].doc.text, MaxChunkChars))]

\* Granite: <documents>{"doc_id": i, ..., "text": d.text}...</documents>
DocumentsXmlGranite(scored) ==
    [i \in 1..Len(scored) |-> Seg("chunk", "", scored[i].doc.text)]

\* the literal "No relevant financial documents found ..." statement
Placeholder == <<Seg("placeholder", "", <<>>)>>

\* the systemInstruction / systemPromptContent text
SystemInstruction == <<Seg("system", "", <<>>)>>

BuildPromptGemma(history, scored, query) ==
    LET formattedHistory ==
            [i \in 1..Len(history) |->
                Seg("turn",
                    IF history[i].role = "user" THEN "user" ELSE "model",
                    history[i].text)]
        contextText == ContextTextGemma(scored)
        augmentedQuery ==
            (IF contextText # <<>> THEN contextText ELSE Placeholder)
              \o <<Seg("question", "", query)>>
        userContent ==
            IF Len(history) = 0 THEN SystemInstruction \o augmentedQuery
            ELSE augmentedQuery
    IN  <<Seg("bos", "", <<>>)>> \o formattedHistory
          \o <<Seg("open", "user", <<>>)>> \o userContent
          \o <<Seg("close", "", <<>>), Seg("open", "model", <<>>)>>

BuildPromptGranite(history, scored, query) ==
    LET documentsXmlString == DocumentsXmlGranite(scored)
        systemPromptContent ==
            SystemInstruction
              \o (IF documentsXmlString # <<>> THEN documentsXmlString
                  ELSE Placeholder)
    IN  <<Seg("open", "system", <<>>)>> \o systemPromptContent
          \o <<Seg("close", "", <<>>)>>
          \o [i \in 1..Len(history) |->
                Seg("turn", history[i].role, history[i].text)]
          \o <<Seg("turn", "user", query), Seg("open", "assistant", <<>>)>>

\* a variant that leaves the context section empty when nothing was retrieved
BuildPromptNoPlaceholder(r, history, scored, query) ==
    SelectSeq(IF r = "gemma" THEN BuildPromptGemma(history, scored, query)
              ELSE BuildPromptGranite(history, scored, query),
              LAMBDA seg : seg.kind # "placeholder")

BuildPrompt(r, history, scored, query) ==
    IF r = "gemma" THEN BuildPromptGemma(history, scored, query)
    ELSE BuildPromptGranite(history, scored, query)

(***************************************************************************)
(* Cleaning of the engine's reply.  A reply is a sequence of pieces: a     *)
(* delimiter token, a newline, a space or a word.                          *)
(***************************************************************************)
\* reply.indexOf('<start_of_turn>user'), 0 when absent
IndexOfUserTurn(t) ==
    IF \E i \in 1..Len(t) : t[i] = "<start_of_turn>user"
    THEN CHOOSE i \in 1..Len(t) :
            /\ t[i] = "<start_of_turn>user"
            /\ \A j \in 1..(i - 1) : t[j] # "<start_of_turn>user"
    ELSE 0

\* reply.replace(/<end_of_turn>|<end_of_text>|\n\n/g, '')
RECURSIVE RemoveGemmaTokens(_)
RemoveGemmaTokens(t) ==
    IF t = <<>> THEN <<>>
    ELSE IF Head(t) \in {"<end_of_turn>", "<end_of_text>"}
         THEN RemoveGemmaTokens(Tail(t))
    ELSE IF Len(t) >= 2 /\ t[1] = "\n" /\ t[2] = "\n"
         THEN RemoveGemmaTokens(Tail(Tail(t)))
    ELSE <<Head(t)>> \o RemoveGemmaTokens(Tail(t))

CleanReplyGemma(text) ==
    LET rawReply == Trim(text)
        userTurnIndex == IndexOfUserTurn(rawReply)
        cut == IF userTurnIndex # 0
               THEN SubSeq(rawReply, 1, userTurnIndex - 1)
               ELSE rawReply
    IN  Trim(RemoveGemmaTokens(cut))

\* the pieces matched by /<\|.*?\|>/
GraniteSpecial == {"<|end_of_text|>", "<|start_of_role|>", "<|end_of_role|>"}

\* reply.replace(/<documents>.*?<\/documents>/gs, '')
RECURSIVE RemoveDocumentSpans(_)
RemoveDocumentSpans(t) ==
    IF t = <<>> THEN <<>>
    ELSE IF Head(t) = "<documents>"
            /\ \E j \in 2..Len(t) : t[j] = "</documents>"
         THEN LET j == CHOOSE k \in 2..Len(t) :
                          /\ t[k] = "</documents>"
                          /\ \A m \in 2..(k - 1) : t[m] # "</documents>"
              IN  RemoveDocumentSpans(SubSeq(t, j + 1, Len(t)))
    ELSE <<Head(t)>> \o RemoveDocumentSpans(Tail(t))

CleanReplyGranite(text) ==
    Trim(RemoveDocumentSpans(SelectSeq(text, LAMBDA p : p \notin GraniteSpecial)))

CleanReply(r, text) ==
    IF r = "gemma" THEN CleanReplyGemma(text) ELSE CleanReplyGranite(text)

\* "Error: Could not get a response from the model."
ErrorString == <<"Error: Could not get a response from the model.">>

(***************************************************************************)
(* Inputs: queries, engine outputs, vectors.                               *)
(***************************************************************************)
\* "it": an anaphoric word
QIt == <<"i", "t">>

\* 25 characters, no anaphoric word
QLong == Rep(VagueLength, "x")

Queries == {QIt, QLong}

\* an output of the rewriter engine: qt quotes, sp spaces, n letters,
\* sp spaces, qt quotes (the stop sequence '\n' keeps newlines out)
RewriteText(qt, sp, n) ==
    Rep(qt, "'") \o Rep(sp, " ") \o Rep(n, "r") \o Rep(sp, " ") \o Rep(qt, "\"")

RewriteTexts ==
    { RewriteText(0, 0, 3), RewriteText(0, 2, 11),
      RewriteText(1, 0, 11), RewriteText(1, 2, 8) }

\* outputs of the main engine: a reply within white space, and the engine
\* happening to write the very sentence that answerQuery returns on a failure
RawReplies == { <<" ", "w", "\n">>, ErrorString }

\* tokens handed to the streaming callback; <<>> is a token without text
TokenSet == {<<>>, <<"w">>}

\* tokens of a longer stream: two different texts and a token without text
StreamTokens == {<<>>, <<"a">>, <<"b">>}

\* the text of a follow-on user turn that the engine went on to write
FollowOnText == "q"

\* outputs of the main engine that carry delimiters of its chat template
LeakyReplies(r) ==
    IF r = "gemma"
    THEN { <<"w">>,
           <<" ", "w", "<end_of_turn>", "\n">>,
           <<"w", "<start_of_turn>user", FollowOnText>>,
           <<"w", "<start_of_turn>model", "w">> }
    ELSE { <<"w">>,
           <<"w", "<|end_of_text|>">>,
           <<"<documents>", "d", "</documents>", "w">>,
           <<"w", "<|start_of_role|>", "user", "<|end_of_role|>",
             FollowOnText>> }

QueryVecs == {<<1, 0>>, <<0, 0>>}

\* against the query <<1, 0>> these score 0.707 and 0.316
DocVecs == {<<1, 1>>, <<1, 3>>}

DocText == <<"d">>

(***************************************************************************)
(* One answerQuery call: its position and its locals.  rewriteCalls,       *)
(* rewriteText, embedArgs, tokens, appended and faults record what the     *)
(* call did and which of its engine calls failed.                          *)
(***************************************************************************)
IdleCall ==
    [pc |-> "idle", query |-> <<>>, topK |-> 0, history |-> <<>>,
     retrievalQuery |-> <<>>, rewriteCalls |-> 0, rewriteText |-> <<>>,
     embedArgs |-> <<>>, queryEmbedding |-> <<>>, allDocs |-> <<>>,
     scored |-> <<>>, prompt |-> <<>>, buffer |-> <<>>, tokenCounter |-> 0,
     tokens |-> <<>>, partials |-> <<>>, reply |-> <<>>, result |-> "none",
     resultText |-> <<>>, appended |-> <<>>, failedAt |-> "", faults |-> {}]

NewCall(q, k) == [IdleCall EXCEPT !.pc = "getHistory", !.query = q, !.topK = k]

Active(c) == calls[c].pc \notin {"idle", "done", "rejected"}

Idle(c) == calls[c].pc = "idle"

\* a throw that nothing catches: the promise of answerQuery rejects and the
\* locals of the call are gone; failedAt keeps the step that threw
Rejected(call) ==
    [IdleCall EXCEPT !.pc = "rejected", !.result = "rejected",
                     !.query = call.query, !.topK = call.topK,
                     !.failedAt = call.pc, !.appended = call.appended,
                     !.faults = call.faults]

\* rows added to chat_memory by a step
NewRows(old, new) == SubSeq(new, Len(old) + 1, Len(new))

\* const flushTokenCount = 1
flushTokenCount == 1

\* no run of ingestInitialDataIfNeeded is under way
IdleIngest == [pc |-> "idle"]

\* no run of handleUpload is under way
IdleUpload == [pc |-> "idle"]

\* checkAndInit has not been called: the setup screen is shown
IdleStartup == [pc |-> "idle", run |-> 0, screen |-> "setup",
                loading |-> TRUE, error |-> "null"]

\* no run of resetRAGDatabase is under way
IdleReset == [pc |-> "idle"]

\* dbPromise is null, no initialisation was attempted and no store call is
\* under way
ClosedDb == [promise |-> 0, attempts |-> <<>>, tables |-> {}, ops |-> <<>>]

Init ==
    /\ rev \in Revisions
    /\ chat = <<>>
    /\ docs = {}
    /\ nextId = 1
    /\ calls = [c \in Callers |-> IdleCall]
    /\ deleted = {}
    /\ flags = {}
    /\ ingest = IdleIngest
    /\ upload = IdleUpload
    /\ startup = IdleStartup
    /\ reset = IdleReset
    /\ db = ClosedDb
    /\ pure = <<>>

\* a variant that stores the user turn as soon as the call is made
StartStoresUserTurn(c, q, k) ==
    /\ calls[c].pc = "idle"
    /\ Len(chat) + 2 <= MaxChat
    /\ chat' = AddChatMessage(chat, "user", q)
    /\ calls' = [calls EXCEPT ![c] = NewCall(q, k)]
    /\ UNCHANGED <<rev, docs, nextId, deleted, appVars>>

\* the application calls answerQuery(query, onPartial, topK)
Start(c, q, k) ==
    /\ Idle(c)
    /\ Len(chat) + 2 <= MaxChat
    /\ calls' = [calls EXCEPT ![c] = NewCall(q, k)]
    /\ UNCHANGED <<rev, chat, docs, nextId, deleted, appVars>>

\* a variant that forgets the history test
WantsRewriteAnyHistory(h, q) == IsVague(rev, q)

\* history.length > 0 && isVague
WantsRewrite(h, q) == Len(h) > 0 /\ IsVague(rev, q)

\* getChatHistory returns; either the rewrite completion is issued or the
\* embedding of the original query
GetHistoryReturn(c) ==
    /\ calls[c].pc = "getHistory"
    /\ LET h == GetChatHistory(chat, HistoryLimit(rev))
           q == calls[c].query
       IN  calls' = [calls EXCEPT ![c] =
              IF WantsRewrite(h, q)
              THEN [@ EXCEPT !.pc = "rewriting", !.history = h,
                             !.retrievalQuery = q,
                             !.rewriteCalls = @ + 1]
              ELSE [@ EXCEPT !.pc = "embedding", !.history = h,
                             !.retrievalQuery = q,
                             !.embedArgs = Append(@, q)]]
    /\ UNCHANGED <<rev, chat, docs, nextId, deleted, appVars>>

\* getChatHistory returns and getRewriterContext() throws inside the try
GetHistoryReturnNoRewriter(c) ==
    /\ calls[c].pc = "getHistory"
    /\ LET h == GetChatHistory(chat, HistoryLimit(rev))
           q == calls[c].query
       IN  /\ WantsRewrite(h, q)
           /\ calls' = [calls EXCEPT ![c] =
                 [@ EXCEPT !.pc = "embedding", !.history = h,
                           !.retrievalQuery = q,
                           !.embedArgs = Append(@, q),
                           !.faults = @ \cup {"rewrite"}]]
    /\ UNCHANGED <<rev, chat, docs, nextId, deleted, appVars>>

\* getChatHistory rejects
GetHistoryFail(c) ==
    /\ calls[c].pc = "getHistory"
    /\ calls' = [calls EXCEPT ![c] =
          Rejected([@ EXCEPT !.faults = @ \cup {"store"}])]
    /\ UNCHANGED <<rev, chat, docs, nextId, deleted, appVars>>

\* rewriteCtx.completion resolves with text t
RewriteReturn(c, t) ==
    /\ calls[c].pc = "rewriting"
    /\ LET rq == AcceptRewrite(rev, calls[c].query, t)
       IN  calls' = [calls EXCEPT ![c] =
              [@ EXCEPT !.pc = "embedding", !.rewriteText = t,
                        !.retrievalQuery = rq,
                        !.embedArgs = Append(@, rq)]]
    /\ UNCHANGED <<rev, chat, docs, nextId, deleted, appVars>>

\* a variant without the try/catch around the rewrite
RewriteFailPropagates(c) ==
    /\ calls[c].pc = "rewriting"
    /\ calls' = [calls EXCEPT ![c] =
          Rejected([@ EXCEPT !.faults = @ \cup {"rewrite"}])]
    /\ UNCHANGED <<rev, chat, docs, nextId, deleted, appVars>>

\* rewriteCtx.completion rejects: catch (e) { retrievalQuery = query }
RewriteFail(c) ==
    /\ calls[c].pc = "rewriting"
    /\ calls' = [calls EXCEPT ![c] =
          [@ EXCEPT !.pc = "embedding",
                    !.retrievalQuery = calls[c].query,
                    !.embedArgs = Append(@, calls[c].query),
                    !.faults = @ \cup {"rewrite"}]]
    /\ UNCHANGED <<rev, chat, docs, nextId, deleted, appVars>>

\* embedText(retrievalQuery) resolves with vector v
EmbedReturn(c, v) ==
    /\ calls[c].pc = "embedding"
    /\ calls' = [calls EXCEPT ![c] =
          [@ EXCEPT !.pc = "getDocs", !.queryEmbedding = v]]
    /\ UNCHANGED <<rev, chat, docs, nextId, deleted, appVars>>

\* embedText rejects
EmbedFail(c) ==
    /\ calls[c].pc = "embedding"
    /\ calls' = [calls EXCEPT ![c] =
          Rejected([@ EXCEPT !.faults = @ \cup {"embedding"}])]
    /\ UNCHANGED <<rev, chat, docs, nextId, deleted, appVars>>

\* getAllDocs returns: search, prompt assembly, start of the main completion
GetDocsReturn(c) ==
    /\ calls[c].pc = "getDocs"
    /\ LET all == GetAllDocs(docs)
           sc == SelectTopK(rev, calls[c].queryEmbedding, all, calls[c].topK)
       IN  calls' = [calls EXCEPT ![c] =
              [@ EXCEPT !.pc = "generating", !.allDocs = all, !.scored = sc,
                        !.prompt = BuildPrompt(rev, calls[c].history, sc,
                                               calls[c].query)]]
    /\ UNCHANGED <<rev, chat, docs, nextId, deleted, appVars>>

\* getAllDocs returns and getChatContext() throws, outside the try
GetDocsReturnNoContext(c) ==
    /\ calls[c].pc = "getDocs"
    /\ calls' = [calls EXCEPT ![c] =
          Rejected([@ EXCEPT !.pc = "getChatContext",
                             !.faults = @ \cup {"context"}])]
    /\ UNCHANGED <<rev, chat, docs, nextId, deleted, appVars>>

\* getAllDocs rejects
GetDocsFail(c) ==
    /\ calls[c].pc = "getDocs"
    /\ calls' = [calls EXCEPT ![c] =
          Rejected([@ EXCEPT !.faults = @ \cup {"store"}])]
    /\ UNCHANGED <<rev, chat, docs, nextId, deleted, appVars>>

\* a variant that forgets to empty the buffer after a flush
OnTokenKeepsBuffer(call, tok) ==
    IF tok = <<>> THEN call
    ELSE LET buf == call.buffer \o tok
             cnt == call.tokenCounter + 1
         IN  IF cnt >= flushTokenCount
             THEN [call EXCEPT !.partials = Append(@, buf),
                               !.buffer = buf, !.tokenCounter = 0]
             ELSE [call EXCEPT !.buffer = buf, !.tokenCounter = cnt]

\* the streaming callback (data) => { ... } for one token
OnToken(call, tok) ==
    IF tok = <<>> THEN call
    ELSE LET buf == call.buffer \o tok
             cnt == call.tokenCounter + 1
         IN  IF cnt >= flushTokenCount
             THEN [call EXCEPT !.partials = Append(@, buf),
                               !.buffer = <<>>, !.tokenCounter = 0]
             ELSE [call EXCEPT !.buffer = buf, !.tokenCounter = cnt]

Token(c, tok) ==
    /\ calls[c].pc = "generating"
    /\ Len(calls[c].tokens) < MaxTokens
    /\ calls' = [calls EXCEPT ![c] =
          [OnToken(@, tok) EXCEPT !.tokens = Append(@, tok)]]
    /\ UNCHANGED <<rev, chat, docs, nextId, deleted, appVars>>

\* the same callback, in a stream of up to MaxStream tokens
StreamToken(c, tok) ==
    /\ calls[c].pc = "generating"
    /\ Len(calls[c].tokens) < MaxStream
    /\ calls' = [calls EXCEPT ![c] =
          [OnToken(@, tok) EXCEPT !.tokens = Append(@, tok)]]
    /\ UNCHANGED <<rev, chat, docs, nextId, deleted, appVars>>

\* ctx.completion resolves with text raw: flush, clean, first append issued
GenReturn(c, raw) ==
    /\ calls[c].pc = "generating"
    /\ calls' = [calls EXCEPT ![c] =
          [@ EXCEPT !.pc = "saveUser",
                    !.partials = IF Len(calls[c].buffer) > 0
                                 THEN Append(@, calls[c].buffer) ELSE @,
                    !.resultText = raw,
                    !.reply = CleanReply(rev, raw)]]
    /\ UNCHANGED <<rev, chat, docs, nextId, deleted, appVars>>

\* a variant without the try/catch around the main completion
GenFailPropagates(c) ==
    /\ calls[c].pc = "generating"
    /\ calls' = [calls EXCEPT ![c] =
          Rejected([@ EXCEPT !.faults = @ \cup {"generation"}])]
    /\ UNCHANGED <<rev, chat, docs, nextId, deleted, appVars>>

\* a variant that stores the exchange of a failed generation like any other
GenFailPersistsExchange(c) ==
    /\ calls[c].pc = "generating"
    /\ chat' = AddChatMessage(AddChatMessage(chat, "user", calls[c].query),
                              "assistant", ErrorString)
    /\ calls' = [calls EXCEPT ![c] =
          [@ EXCEPT !.pc = "done", !.result = "error", !.reply = ErrorString,
                    !.appended = NewRows(chat, chat'),
                    !.faults = @ \cup {"generation"}]]
    /\ UNCHANGED <<rev, docs, nextId, deleted, appVars>>

\* ctx.completion rejects: return "Error: Could not get a response ..."
GenFail(c) ==
    /\ calls[c].pc = "generating"
    /\ calls' = [calls EXCEPT ![c] =
          [@ EXCEPT !.pc = "done", !.result = "error", !.reply = ErrorString,
                    !.faults = @ \cup {"generation"}]]
    /\ UNCHANGED <<rev, chat, docs, nextId, deleted, appVars>>

\* a variant that persists the retrieval query as the user's turn
SaveUserReturnRetrievalQuery(c) ==
    /\ calls[c].pc = "saveUser"
    /\ chat' = AddChatMessage(chat, "user", calls[c].retrievalQuery)
    /\ calls' = [calls EXCEPT ![c] =
          [@ EXCEPT !.pc = "saveAssistant",
                    !.appended = @ \o NewRows(chat, chat')]]
    /\ UNCHANGED <<rev, docs, nextId, deleted, appVars>>

\* await addChatMessage('user', query)
SaveUserReturn(c) ==
    /\ calls[c].pc = "saveUser"
    /\ chat' = AddChatMessage(chat, "user", calls[c].query)
    /\ calls' = [calls EXCEPT ![c] =
          [@ EXCEPT !.pc = "saveAssistant",
                    !.appended = @ \o NewRows(chat, chat')]]
    /\ UNCHANGED <<rev, docs, nextId, deleted, appVars>>

\* addChatMessage('user', query) rejects
SaveUserFail(c) ==
    /\ calls[c].pc = "saveUser"
    /\ calls' = [calls EXCEPT ![c] =
          Rejected([@ EXCEPT !.faults = @ \cup {"store"}])]
    /\ UNCHANGED <<rev, chat, docs, nextId, deleted, appVars>>

\* a variant that also stores the reply as a unit of the Vector Index
SaveAssistantReturnIndexesReply(c) ==
    /\ calls[c].pc = "saveAssistant"
    /\ chat' = AddChatMessage(chat, "assistant", calls[c].reply)
    /\ docs' = AddDocument(docs, nextId, calls[c].reply, <<0, 0>>)
    /\ calls' = [calls EXCEPT ![c] =
          [@ EXCEPT !.pc = "done", !.result = "reply",
                    !.appended = @ \o NewRows(chat, chat')]]
    /\ UNCHANGED <<rev, nextId, deleted, appVars>>

\* await addChatMessage('assistant', reply); return reply
SaveAssistantReturn(c) ==
    /\ calls[c].pc = "saveAssistant"
    /\ chat' = AddChatMessage(chat, "assistant", calls[c].reply)
    /\ calls' = [calls EXCEPT ![c] =
          [@ EXCEPT !.pc = "done", !.result = "reply",
                    !.appended = @ \o NewRows(chat, chat')]]
    /\ UNCHANGED <<rev, docs, nextId, deleted, appVars>>

\* a variant that returns the reply although the append failed
SaveAssistantFailSwallowed(c) ==
    /\ calls[c].pc = "saveAssistant"
    /\ calls' = [calls EXCEPT ![c] =
          [@ EXCEPT !.pc = "done", !.result = "reply",
                    !.faults = @ \cup {"store"}]]
    /\ UNCHANGED <<rev, chat, docs, nextId, deleted, appVars>>

\* addChatMessage('assistant', reply) rejects
SaveAssistantFail(c) ==
    /\ calls[c].pc = "saveAssistant"
    /\ calls' = [calls EXCEPT ![c] =
          Rejected([@ EXCEPT !.faults = @ \cup {"store"}])]
    /\ UNCHANGED <<rev, chat, docs, nextId, deleted, appVars>>

\* the promise is settled and the caller has taken the outcome
Settle(c) ==
    /\ calls[c].pc \in {"done", "rejected"}
    /\ calls' = [calls EXCEPT ![c] = IdleCall]
    /\ UNCHANGED <<rev, chat, docs, nextId, deleted, appVars>>

\* checkAndInit at the start of a session: await clearChatMemory()
SessionReset ==
    /\ \A c \in Callers : Idle(c)
    /\ chat # <<>>
    /\ chat' = ClearChatMemory(chat)
    /\ UNCHANGED <<rev, docs, nextId, calls, deleted, appVars>>

\* The upload screen's insert is taken between queries: a call reads the
\* documents table at one point only (getAllDocs), so an insert during a
\* call has the effect of one just before or just after it.
\* upload screen: addDocument(chunk, embedding), for the first max units
AddUnit(v, max) ==
    /\ \A c \in DOMAIN calls : Idle(c)
    /\ nextId <= max
    /\ docs' = AddDocument(docs, nextId, DocText, v)
    /\ nextId' = nextId + 1
    /\ UNCHANGED <<rev, chat, calls, deleted, appVars>>

Upload(v) == AddUnit(v, MaxDocs)

\* upload screen, handleDelete on a listed unit: deleteDocument(docId).
\* Like the insert it is taken between queries.
Delete(id) ==
    /\ \A c \in DOMAIN calls : Idle(c)
    /\ \E d \in docs : d.id = id
    /\ docs' = DeleteDocument(docs, id)
    /\ deleted' = deleted \cup {id}
    /\ UNCHANGED <<rev, chat, nextId, calls, appVars>>

Next ==
    \/ \E c \in Callers, q \in Queries, k \in 0..MaxK : Start(c, q, k)
    \/ \E c \in Callers : GetHistoryReturn(c)
    \/ \E c \in Callers : GetHistoryReturnNoRewriter(c)
    \/ \E c \in Callers : GetHistoryFail(c)
    \/ \E c \in Callers, t \in RewriteTexts : RewriteReturn(c, t)
    \/ \E c \in Callers : RewriteFail(c)
    \/ \E c \in Callers, v \in QueryVecs : EmbedReturn(c, v)
    \/ \E c \in Callers : EmbedFail(c)
    \/ \E c \in Callers : GetDocsReturn(c)
    \/ \E c \in Callers : GetDocsReturnNoContext(c)
    \/ \E c \in Callers : GetDocsFail(c)
    \/ \E c \in Callers, tok \in TokenSet : Token(c, tok)
    \/ \E c \in Callers, raw \in RawReplies : GenReturn(c, raw)
    \/ \E c \in Callers : GenFail(c)
    \/ \E c \in Callers : SaveUserReturn(c)
    \/ \E c \in Callers : SaveUserFail(c)
    \/ \E c \in Callers : SaveAssistantReturn(c)
    \/ \E c \in Callers : SaveAssistantFail(c)
    \/ \E c \in Callers : Settle(c)
    \/ SessionReset
    \/ \E v \in DocVecs : Upload(v)

Spec == Init /\ [][Next]_vars

(***************************************************************************)
(* One answerQuery call on an empty store, with longer token streams and   *)
(* engine outputs that carry template delimiters.                          *)
(***************************************************************************)
NextGen ==
    \/ \E c \in Callers, q \in Queries, k \in 0..MaxK : Start(c, q, k)
    \/ \E c \in Callers : GetHistoryReturn(c)
    \/ \E c \in Callers, v \in QueryVecs : EmbedReturn(c, v)
    \/ \E c \in Callers : GetDocsReturn(c)
    \/ \E c \in Callers, tok \in StreamTokens : StreamToken(c, tok)
    \/ \E c \in Callers, raw \in LeakyReplies(rev) : GenReturn(c, raw)
    \/ \E c \in Callers : GenFail(c)
    \/ \E c \in Callers : SaveUserReturn(c)
    \/ \E c \in Callers : SaveAssistantReturn(c)

SpecGen == Init /\ [][NextGen]_vars

(***************************************************************************)
(* The Vector Index under inserts and deletes from the upload screen, and  *)
(* the queries that search it.                                             *)
(***************************************************************************)
NextIndex ==
    \/ \E v \in DocVecs : AddUnit(v, MaxInserts)
    \/ \E id \in 1..MaxInserts : Delete(id)
    \/ \E c \in Callers, k \in 1..MaxIndexK : Start(c, QLong, k)
    \/ \E c \in Callers : GetHistoryReturn(c)
    \/ \E c \in Callers, v \in QueryVecs : EmbedReturn(c, v)
    \/ \E c \in Callers : GetDocsReturn(c)
    \/ \E c \in Callers : GenReturn(c, <<"w">>)
    \/ \E c \in Callers : GenFail(c)
    \/ \E c \in Callers : SaveUserReturn(c)
    \/ \E c \in Callers : SaveAssistantReturn(c)
    \/ \E c \in Callers : Settle(c)

SpecIndex == Init /\ [][NextIndex]_vars

(***************************************************************************)
(* Two answerQuery calls of one session that may overlap: answerQuery is   *)
(* an async function and nothing in it waits for an earlier call.          *)
(***************************************************************************)
ConcCallers == {1, 2}

InitConc ==
    /\ rev \in Revisions
    /\ chat = <<>>
    /\ docs = {}
    /\ nextId = 1
    /\ calls = [c \in ConcCallers |-> IdleCall]
    /\ deleted = {}
    /\ flags = {}
    /\ ingest = IdleIngest
    /\ upload = IdleUpload
    /\ startup = IdleStartup
    /\ reset = IdleReset
    /\ db = ClosedDb
    /\ pure = <<>>

NextConc ==
    \/ \E c \in ConcCallers : Start(c, QIt, 0)
    \/ \E c \in ConcCallers : GetHistoryReturn(c)
    \/ \E c \in ConcCallers : RewriteReturn(c, RewriteText(0, 0, 3))
    \/ \E c \in ConcCallers : RewriteFail(c)
    \/ \E c \in ConcCallers : EmbedReturn(c, <<0, 0>>)
    \/ \E c \in ConcCallers : GetDocsReturn(c)
    \/ \E c \in ConcCallers : GenReturn(c, <<"w">>)
    \/ \E c \in ConcCallers : GenFail(c)
    \/ \E c \in ConcCallers : SaveUserReturn(c)
    \/ \E c \in ConcCallers : SaveUserFail(c)
    \/ \E c \in ConcCallers : SaveAssistantReturn(c)
    \/ \E c \in ConcCallers : SaveAssistantFail(c)
    \/ \E c \in ConcCallers : Settle(c)

SpecConc == InitConc /\ [][NextConc]_vars

(***************************************************************************)
(* Properties.                                                             *)
(***************************************************************************)
Turn(role, text) == [role |-> role, text |-> text]

\* the last n elements of s
LastN(s, n) == SubSeq(s, Len(s) - n + 1, Len(s))

HasPlaceholder(prompt) == \E i \in 1..Len(prompt) : prompt[i].kind = "placeholder"

CountKind(prompt, kind) == Cardinality({i \in 1..Len(prompt) : prompt[i].kind = kind})

\* the revision that configures a minimum-relevance threshold
ThresholdConfigured(r) == r = "granite"

\* C1 (as stated): every call that returns, with a reply or with the fixed
\* error string, has appended exactly the two turns ('user', query) and
\* ('assistant', cleaned reply), in that order.
C1_EveryReturnAppendsTwoTurns ==
    \A c \in Callers :
        calls[c].pc = "done" =>
            calls[c].appended = << Turn("user", calls[c].query),
                                   Turn("assistant", calls[c].reply) >>

\* C1 (amended): a call that returns a normal reply has appended exactly
\* ('user', query) then ('assistant', cleaned reply) and returns that cleaned
\* reply; a call that returns the fixed error string has appended nothing.
C1_ReplyAppendsTwoTurnsErrorNone ==
    \A c \in Callers :
        calls[c].pc = "done" =>
            /\ calls[c].result = "reply" =>
                 /\ calls[c].reply = CleanReply(rev, calls[c].resultText)
                 /\ calls[c].appended = << Turn("user", calls[c].query),
                                           Turn("assistant", calls[c].reply) >>
                 /\ \E i, j \in 1..Len(chat) :
                       /\ i < j
                       /\ chat[i] = calls[c].appended[1]
                       /\ chat[j] = calls[c].appended[2]
            /\ calls[c].result = "error" =>
                 /\ calls[c].reply = ErrorString
                 /\ calls[c].appended = <<>>

C1_Witness ==
    \E c \in Callers :
        /\ calls[c].pc = "done"
        /\ calls[c].result = "reply"
        /\ Len(calls[c].appended) = 2
        /\ calls[c].history # <<>>

\* C2: with n turns stored, getChatHistory(limit) returns the min(limit, n)
\* most recently appended turns, oldest first.
C2_HistoryIsMostRecent ==
    \A limit \in 0..MaxLimit :
        GetChatHistory(chat, limit) = LastN(chat, Min2(limit, Len(chat)))

\* C3: the search selects at most K units, none scoring below the configured
\* threshold; when every stored unit scores below it the selection is empty
\* and the prompt carries the no-context placeholder.
C3_TopKAboveThreshold ==
    \A c \in Callers :
        calls[c].pc = "generating" =>
            LET sc == calls[c].scored
                all == calls[c].allDocs
                qe == calls[c].queryEmbedding
            IN  /\ Len(sc) <= calls[c].topK
                /\ \A i \in 1..Len(sc) :
                     /\ \E j \in 1..Len(all) : sc[i].doc = all[j]
                     /\ sc[i].score = cosine(qe, sc[i].doc.embedding)
                /\ ThresholdConfigured(rev) =>
                     /\ \A i \in 1..Len(sc) : ScoreAtLeastThreshold(sc[i].score)
                     /\ (\A j \in 1..Len(all) :
                            ~ScoreAtLeastThreshold(cosine(qe, all[j].embedding)))
                          => /\ sc = <<>>
                             /\ HasPlaceholder(calls[c].prompt)

\* a non-empty index whose best match is below 0.45, with K > 0
C3_Witness ==
    \E c \in Callers :
        /\ calls[c].pc = "generating"
        /\ ThresholdConfigured(rev)
        /\ calls[c].topK > 0
        /\ calls[c].allDocs # <<>>
        /\ calls[c].queryEmbedding = <<1, 0>>
        /\ \A j \in 1..Len(calls[c].allDocs) :
              ~ScoreAtLeastThreshold(cosine(calls[c].queryEmbedding,
                                            calls[c].allDocs[j].embedding))
        /\ calls[c].scored = <<>>
        /\ HasPlaceholder(calls[c].prompt)

\* C4: the system instructions appear in the prompt exactly once when the
\* history read from Chat Memory is empty and zero times when it is not.
C4_SystemOnceIffHistoryEmpty ==
    \A c \in Callers :
        calls[c].pc = "generating" =>
            CountKind(calls[c].prompt, "system")
                = (IF calls[c].history = <<>> THEN 1 ELSE 0)

\* C5: the placeholder statement is in the prompt if and only if no unit was
\* retrieved; otherwise the retrieved units are there, in ranked order, and
\* the placeholder is not.
C5_PlaceholderIffNothingRetrieved ==
    \A c \in Callers :
        calls[c].pc = "generating" =>
            LET pr == calls[c].prompt
                chunks == SelectSeq(pr, LAMBDA seg : seg.kind = "chunk")
            IN  /\ HasPlaceholder(pr) <=> calls[c].scored = <<>>
                /\ CountKind(pr, "placeholder") <= 1
                /\ Len(chunks) = Len(calls[c].scored)
                /\ \A i \in 1..Len(chunks) :
                     chunks[i].text = calls[c].scored[i].doc.text

\* nothing retrieved from a non-empty index because K = 0
C5_Witness ==
    \E c \in Callers :
        /\ calls[c].pc = "generating"
        /\ calls[c].allDocs # <<>>
        /\ calls[c].topK = 0
        /\ calls[c].scored = <<>>
        /\ HasPlaceholder(calls[c].prompt)

PostRewrite ==
    {"embedding", "getDocs", "generating", "saveUser", "saveAssistant", "done"}

HasPrompt == {"generating", "saveUser", "saveAssistant", "done"}

\* the current user turn as rendered in the prompt
UserTurnText(r, prompt) ==
    IF r = "gemma"
    THEN prompt[CHOOSE i \in 1..Len(prompt) : prompt[i].kind = "question"].text
    ELSE prompt[Len(prompt) - 1].text

\* C6: when a rewrite is accepted and the retrieval query differs from the
\* query, the text embedded is the rewritten query, and the user turn of the
\* prompt and the user turn persisted are the original query.
C6_RewriteAffectsRetrievalOnly ==
    \A c \in Callers :
        (calls[c].pc \in PostRewrite /\ calls[c].retrievalQuery # calls[c].query) =>
            /\ calls[c].rewriteCalls = 1
            /\ calls[c].retrievalQuery = CleanRewrite(calls[c].rewriteText)
            /\ calls[c].embedArgs = <<calls[c].retrievalQuery>>
            /\ calls[c].pc \in HasPrompt =>
                 UserTurnText(rev, calls[c].prompt) = calls[c].query
            /\ \A i \in 1..Len(calls[c].appended) :
                 calls[c].appended[i].role = "user"
                    => calls[c].appended[i].text = calls[c].query
            /\ calls[c].pc \in {"saveAssistant", "done"} /\ calls[c].result # "error"
                 => calls[c].appended[1] = Turn("user", calls[c].query)

C6_Witness ==
    \E c \in Callers :
        /\ calls[c].pc = "done"
        /\ calls[c].result = "reply"
        /\ calls[c].retrievalQuery # calls[c].query
        /\ calls[c].embedArgs = <<calls[c].retrievalQuery>>

\* C7: when the history read at the start of the call is empty, no rewrite
\* generation is made and the text embedded is the original query.
C7_NoRewriteOnEmptyHistory ==
    \A c \in Callers :
        (calls[c].pc \in PostRewrite \cup {"rewriting"} /\ calls[c].history = <<>>) =>
            /\ calls[c].rewriteCalls = 0
            /\ calls[c].rewriteText = <<>>
            /\ calls[c].retrievalQuery = calls[c].query
            /\ calls[c].embedArgs = <<calls[c].query>>

\* an ambiguous query on an empty history
C7_Witness ==
    \E c \in Callers :
        /\ calls[c].pc = "embedding"
        /\ calls[c].history = <<>>
        /\ IsVague(rev, calls[c].query)
        /\ calls[c].embedArgs = <<calls[c].query>>

\* C8: a failure to obtain the rewriter engine, or of its completion call,
\* does not abort the call: it goes on with the original query as the
\* retrieval query, and is never rejected at the rewrite step.
C8_RewriteFailureIsNotFatal ==
    \A c \in Callers :
        "rewrite" \in calls[c].faults =>
            /\ calls[c].pc = "rejected" =>
                 calls[c].failedAt \in {"embedding", "getDocs", "getChatContext",
                                        "saveUser", "saveAssistant"}
            /\ calls[c].pc # "rejected" =>
                 /\ calls[c].pc \in PostRewrite
                 /\ calls[c].retrievalQuery = calls[c].query
                 /\ calls[c].embedArgs = <<calls[c].query>>

\* a call whose rewrite failed and that returned a normal reply
C8_Witness ==
    \E c \in Callers :
        /\ "rewrite" \in calls[c].faults
        /\ calls[c].pc = "done"
        /\ calls[c].result = "reply"
        /\ calls[c].scored # <<>>

\* C9: the rewriter's output, with quoting characters and surrounding
\* whitespace stripped, is the retrieval query if its length exceeds the
\* minimum, and otherwise the retrieval query is the original query.
C9_RewriteAcceptedOnlyAboveMinimum ==
    \A c \in Callers :
        (/\ calls[c].pc = "embedding"
         /\ calls[c].rewriteCalls = 1
         /\ "rewrite" \notin calls[c].faults) =>
            LET stripped == Trim(StripQuotes(calls[c].rewriteText))
            IN  calls[c].retrievalQuery =
                    (IF Len(stripped) > RewriteMinLen(rev) THEN stripped
                     ELSE calls[c].query)

\* C10: if the main generation call fails, before or after tokens were
\* streamed, the call resolves with the fixed error string.
C10_GenerationFailureResolvesWithErrorString ==
    \A c \in Callers :
        /\ "generation" \in calls[c].faults =>
             /\ calls[c].pc = "done"
             /\ calls[c].result = "error"
             /\ calls[c].reply = ErrorString
        /\ calls[c].result = "error" => "generation" \in calls[c].faults

\* the generation failed after a token had been passed to onPartial
C10_Witness ==
    \E c \in Callers :
        /\ "generation" \in calls[c].faults
        /\ calls[c].pc = "done"
        /\ calls[c].partials # <<>>

\* what the caller of answerQuery can see of a settled call: whether the
\* promise resolved, the value it resolved with, the rows added to Chat Memory
Observable(call) ==
    [resolved |-> call.pc = "done", value |-> call.reply,
     effect |-> call.appended]

\* the outcomes of the calls whose main generation succeeds
NormalOutcomes ==
    { [resolved |-> TRUE, value |-> CleanReply(rev, raw),
       effect |-> << Turn("user", q),
                     Turn("assistant", CleanReply(rev, raw)) >>] :
        q \in Queries, raw \in RawReplies }

Settled(c) == calls[c].pc \in {"done", "rejected"}

\* C11: a call in which something other than the rewrite failed settles with
\* an outcome (rejection or resolved value, and rows added to Chat Memory)
\* that no call with a successful main generation has.
C11_FailureIsDistinguishable ==
    \A c \in Callers :
        (Settled(c) /\ calls[c].faults \ {"rewrite"} # {}) =>
            /\ Observable(calls[c]) \notin NormalOutcomes
            /\ calls[c].pc = "done" =>
                 /\ calls[c].faults \ {"rewrite"} = {"generation"}
                 /\ calls[c].appended = <<>>

\* the generation failed and the value returned is one that a successful
\* generation can return as well
C11_Witness ==
    \E c \in Callers :
        /\ calls[c].pc = "done"
        /\ "generation" \in calls[c].faults
        /\ \E raw \in RawReplies : CleanReply(rev, raw) = calls[c].reply

StoreSteps == {"getHistory", "getDocs", "saveUser", "saveAssistant"}

\* C12: a failure of a store operation of answerQuery (reading the history,
\* listing the units, appending either turn) rejects the call at that step:
\* the call returns no reply and takes no further step.
C12_StoreFailureRejects ==
    \A c \in Callers :
        "store" \in calls[c].faults =>
            /\ calls[c].pc = "rejected"
            /\ calls[c].result = "rejected"
            /\ calls[c].reply = <<>>
            /\ calls[c].failedAt \in StoreSteps
            /\ Len(calls[c].appended)
                 = (IF calls[c].failedAt = "saveAssistant" THEN 1 ELSE 0)

\* the append of the assistant's turn failed after a successful generation
C12_Witness ==
    \E c \in Callers :
        /\ "store" \in calls[c].faults
        /\ calls[c].failedAt = "saveAssistant"
        /\ calls[c].appended = <<Turn("user", calls[c].query)>>

\* concatenation of a sequence of texts
RECURSIVE Flatten(_)
Flatten(ss) == IF ss = <<>> THEN <<>> ELSE Head(ss) \o Flatten(Tail(ss))

\* the main generation of the call has returned successfully
Generated(c) ==
    \/ calls[c].pc \in {"saveUser", "saveAssistant"}
    \/ calls[c].pc = "done" /\ calls[c].result = "reply"

\* C13: while the engine generates, the chunks passed to onPartial followed
\* by the buffer are the tokens received, in order, and the buffer holds
\* fewer tokens than one batch; once the engine has returned, the chunks
\* passed to onPartial concatenate to the concatenation of the tokens.
C13_PartialsAreTheTokensInOrder ==
    \A c \in Callers :
        LET call == calls[c]
            nonEmpty == SelectSeq(call.tokens, LAMBDA t : t # <<>>)
        IN  /\ call.pc = "generating" =>
                 /\ Flatten(call.partials) \o call.buffer = Flatten(call.tokens)
                 /\ call.tokenCounter < flushTokenCount
                 /\ call.buffer = Flatten(LastN(nonEmpty, call.tokenCounter))
            /\ Generated(c) =>
                 /\ Flatten(call.partials) = Flatten(call.tokens)
                 /\ \A i \in 1..Len(call.partials) : call.partials[i] # <<>>

\* a stream of three tokens, two different texts around a token without text
C13_Witness ==
    \E c \in Callers :
        /\ calls[c].pc = "done"
        /\ calls[c].result = "reply"
        /\ calls[c].tokens = << <<"a">>, <<>>, <<"b">> >>
        /\ calls[c].partials = << <<"a">>, <<"b">> >>

\* the role delimiters of the chat template of the revision's engine
RoleDelimiters(r) ==
    IF r = "gemma"
    THEN {"<start_of_turn>user", "<start_of_turn>model", "<end_of_turn>",
          "<end_of_text>"}
    ELSE GraniteSpecial

\* C14: the reply that answerQuery returns and persists contains no role
\* delimiter of the engine's template and nothing of a follow-on user turn
\* that the engine wrote after its answer.
C14_ReplyHasNoDelimiterNorLeakedTurn ==
    \A c \in Callers :
        Generated(c) =>
            \A i \in 1..Len(calls[c].reply) :
                /\ calls[c].reply[i] \notin RoleDelimiters(rev)
                /\ calls[c].reply[i] # FollowOnText

\* the calls that have a completion (rewrite or main) running on the engine
InFlight ==
    {c \in DOMAIN calls : calls[c].pc \in {"rewriting", "generating"}}

\* C15: at any time at most one generation call, rewrite or main, is in
\* flight against the engine, however the answerQuery calls interleave.
C15_OneGenerationInFlight == Cardinality(InFlight) <= 1

\* the ids of the units in a list of documents or of scored documents
IdsOf(list) == {list[i].id : i \in 1..Len(list)}

ScoredIds(sc) == {sc[i].doc.id : i \in 1..Len(sc)}

\* C16: a unit whose id was given to deleteDocument is not listed by
\* getAllDocs and is not among the units read or selected by a later
\* answerQuery, whatever is inserted or deleted afterwards.
C16_DeletedUnitStaysAbsent ==
    \A id \in deleted :
        /\ id \notin IdsOf(GetAllDocs(docs))
        /\ \A c \in Callers :
              /\ id \notin IdsOf(calls[c].allDocs)
              /\ id \notin ScoredIds(calls[c].scored)

\* after a delete the same text was inserted again and a query selected it
C16_Witness ==
    \E c \in Callers :
        /\ deleted # {}
        /\ calls[c].pc = "generating"
        /\ \E i \in 1..Len(calls[c].scored) :
              /\ calls[c].scored[i].doc.text = DocText
              /\ \E id \in deleted : calls[c].scored[i].doc.id > id

SameScore(s1, s2) == ~ScoreLess(s1, s2) /\ ~ScoreLess(s2, s1)

\* x ranks before y: a higher score, or the same score and inserted later
\* (ids are generated in increasing order)
RanksBefore(x, y) ==
    \/ ScoreLess(y.score, x.score)
    \/ SameScore(x.score, y.score) /\ x.doc.id > y.doc.id

\* C17: the selected units are in descending order of score, the later
\* inserted first among equal scores, and they are the first K of the
\* candidates in that order.
C17_SelectedAreFirstKOfRanking ==
    \A c \in Callers :
        calls[c].pc = "generating" =>
            LET sc == calls[c].scored
                all == calls[c].allDocs
                qe == calls[c].queryEmbedding
                cand == { [doc |-> all[i],
                           score |-> cosine(qe, all[i].embedding)] :
                            i \in {j \in 1..Len(all) :
                                PassesFilter(rev, cosine(qe, all[j].embedding))} }
            IN  /\ \A i \in 1..Len(sc) : sc[i] \in cand
                /\ \A i, j \in 1..Len(sc) : i < j => RanksBefore(sc[i], sc[j])
                /\ Len(sc) = Min2(calls[c].topK, Cardinality(cand))
                /\ \A x \in cand :
                      (\A i \in 1..Len(sc) : sc[i] # x) =>
                          \A i \in 1..Len(sc) : RanksBefore(sc[i], x)

\* two units of equal score selected after a delete, the later one first
C17_Witness ==
    \E c \in Callers :
        /\ calls[c].pc = "generating"
        /\ deleted # {}
        /\ Len(calls[c].scored) = 2
        /\ SameScore(calls[c].scored[1].score, calls[c].scored[2].score)
        /\ ScoreNum(calls[c].scored[1].score) > 0
        /\ calls[c].scored[1].doc.id > calls[c].scored[2].doc.id

(***************************************************************************)
(* cosine on its own: the arguments are drawn from the integer vectors of  *)
(* two coordinates in -MaxCoord..MaxCoord, and the function is called on   *)
(* (a, b), then (b, a), then (a, a).                                       *)
(***************************************************************************)
MaxCoord == 1

CosineVecs == { <<x, y>> : x, y \in (0 - MaxCoord)..MaxCoord }

ZeroVec == <<0, 0>>

\* the value cosine returns: the double computed from the three sums
CosineValue(a, b) == ScoreValue(cosine(a, b))

InitCosine ==
    /\ rev \in Revisions
    /\ chat = <<>>
    /\ docs = {}
    /\ nextId = 1
    /\ calls = [c \in Callers |-> IdleCall]
    /\ deleted = {}
    /\ flags = {}
    /\ ingest = IdleIngest
    /\ upload = IdleUpload
    /\ startup = IdleStartup
    /\ reset = IdleReset
    /\ db = ClosedDb
    /\ pure \in [fn : {"cosine"}, a : CosineVecs, b : CosineVecs,
                 returned : {<<>>}]

\* the next call of cosine returns
CallCosine ==
    /\ pure.fn = "cosine"
    /\ Len(pure.returned) < 3
    /\ LET n == Len(pure.returned)
           x == IF n = 1 THEN pure.b ELSE pure.a
           y == IF n = 0 THEN pure.b ELSE pure.a
       IN  pure' = [pure EXCEPT !.returned = Append(@, CosineValue(x, y))]
    /\ UNCHANGED <<rev, chat, docs, nextId, calls, deleted, flags, ingest,
                   upload, sysVars>>

SpecCosine == InitCosine /\ [][CallCosine]_vars

DoubleOne == DoubleOf(1)

\* C18: for all vectors a and b over the bounded integer domain,
\* cosine(a, b) equals cosine(b, a); cosine(a, a) equals 1 for every
\* non-zero a; and cosine(a, b) equals 0 whenever a or b is the zero vector
C18_CosineLaws ==
    (pure.fn = "cosine" /\ Len(pure.returned) = 3) =>
        /\ pure.returned[1] = pure.returned[2]
        /\ (pure.a # ZeroVec => pure.returned[3] = DoubleOne)
        /\ (pure.a = ZeroVec \/ pure.b = ZeroVec
               => pure.returned[1] = DoubleZero)

\* the two parts of C18 that the code keeps: symmetry, and 0 for a zero
\* vector
C18_SymmetricAndZero ==
    (pure.fn = "cosine" /\ Len(pure.returned) = 3) =>
        /\ pure.returned[1] = pure.returned[2]
        /\ (pure.a = ZeroVec \/ pure.b = ZeroVec
               => pure.returned[1] = DoubleZero)

\* cosine(a, a) for a = <<1, 1>> returned, and it is not the double 1
C18_SelfSimilarityBelowOne ==
    /\ pure.fn = "cosine"
    /\ Len(pure.returned) = 3
    /\ pure.a = <<1, 1>>
    /\ pure.returned[3] # DoubleOne

(***************************************************************************)
(* dataIngestionService: ingestInitialDataIfNeeded, called once at each    *)
(* start of the application.  app_state is a table of (key, value) rows    *)
(* with key as its primary key.                                            *)
(***************************************************************************)
MaxProfileChunks == 2

MaxRuns == 2

INITIAL_DATA_FLAG == "initial_data_ingested_v1"

\* SELECT value FROM app_state WHERE key = ?: the value, or null
getFlag(fs, key) ==
    IF \E f \in fs : f.key = key
    THEN (CHOOSE f \in fs : f.key = key).value
    ELSE "null"

\* INSERT OR REPLACE INTO app_state (key, value) VALUES (?, ?)
setFlag(fs, key, value) ==
    {f \in fs : f.key # key} \cup {[key |-> key, value |-> value]}

\* the text of the j-th chunk of the profile
ChunkText(j) == <<"chunk", j>>

\* what getChunksFromProfile can return: the chunks of a profile, none for
\* a profile without user_profile and without transactions
ProfileChunks ==
    { [j \in 1..n |-> ChunkText(j)] : n \in 0..MaxProfileChunks }

ChunkEmbedding == <<1, 1>>

NewIngest(run) ==
    [pc |-> "getFlag", run |-> run, status |-> "none", chunks |-> <<>>,
     i |-> 0, embedding |-> <<>>, stored |-> <<>>]

\* the application starts and calls ingestInitialDataIfNeeded(setStatus)
IngestStart ==
    /\ ingest.pc \in {"idle", "returned"}
    /\ (IF ingest.pc = "idle" THEN 0 ELSE ingest.run) < MaxRuns
    /\ ingest' = NewIngest(IF ingest.pc = "idle" THEN 1 ELSE ingest.run + 1)
    /\ UNCHANGED <<rev, chat, docs, nextId, calls, deleted, flags, upload,
                   pure, sysVars>>

\* the catch block: onProgress(`Error: ...`), and the function returns
Caught(g) == [g EXCEPT !.pc = "returned", !.status = "Error"]

\* getFlag resolves: 'true' returns at once, anything else loads the profile
GetFlagReturn ==
    /\ ingest.pc = "getFlag"
    /\ ingest' =
         IF getFlag(flags, INITIAL_DATA_FLAG) = "true"
         THEN [ingest EXCEPT !.pc = "returned", !.status = "already loaded"]
         ELSE [ingest EXCEPT !.pc = "getChunks", !.status = "loading"]
    /\ UNCHANGED <<rev, chat, docs, nextId, calls, deleted, flags, upload,
                   pure, sysVars>>

\* a step of the try block rejects (the store, the asset file, JSON.parse,
\* the missing 'accounts' object, the embedder): the catch block runs
IngestStepFail ==
    /\ ingest.pc \in {"getFlag", "getChunks", "embedText", "addDocument",
                      "setFlag"}
    /\ ingest' = Caught(ingest)
    /\ UNCHANGED <<rev, chat, docs, nextId, calls, deleted, flags, upload,
                   pure, sysVars>>

\* getChunksFromProfile resolves with chunks; none throws 'No chunks
\* generated from profile'
GetChunksReturn(chunks) ==
    /\ ingest.pc = "getChunks"
    /\ ingest' =
         IF Len(chunks) = 0 THEN Caught(ingest)
         ELSE [ingest EXCEPT !.pc = "embedText", !.status = "embedding",
                             !.chunks = chunks, !.i = 1]
    /\ UNCHANGED <<rev, chat, docs, nextId, calls, deleted, flags, upload,
                   pure, sysVars>>

\* embedText(chunk) resolves
IngestEmbedReturn(v) ==
    /\ ingest.pc = "embedText"
    /\ ingest' = [ingest EXCEPT !.pc = "addDocument", !.embedding = v]
    /\ UNCHANGED <<rev, chat, docs, nextId, calls, deleted, flags, upload,
                   pure, sysVars>>

\* mutant of AddDocumentReturn: the insert is skipped and the loop goes on
AddDocumentReturnSkipped ==
    /\ ingest.pc = "addDocument"
    /\ ingest' =
         IF ingest.i = Len(ingest.chunks)
         THEN [ingest EXCEPT !.pc = "setFlag", !.i = @ + 1]
         ELSE [ingest EXCEPT !.pc = "embedText", !.i = @ + 1]
    /\ UNCHANGED <<rev, chat, docs, nextId, calls, deleted, flags, upload,
                   pure, sysVars>>

\* addDocument(chunk, embedding) resolves: the row is in the table, and
\* the loop goes to the next chunk, or past the last one to setFlag
AddDocumentReturn ==
    /\ ingest.pc = "addDocument"
    /\ docs' = AddDocument(docs, nextId, ingest.chunks[ingest.i],
                           ingest.embedding)
    /\ nextId' = nextId + 1
    /\ ingest' =
         IF ingest.i = Len(ingest.chunks)
         THEN [ingest EXCEPT !.pc = "setFlag", !.i = @ + 1,
                             !.stored = Append(@, nextId)]
         ELSE [ingest EXCEPT !.pc = "embedText", !.i = @ + 1,
                             !.stored = Append(@, nextId)]
    /\ UNCHANGED <<rev, chat, calls, deleted, flags, upload, pure, sysVars>>

\* setFlag(INITIAL_DATA_FLAG, 'true') resolves, and the function returns
SetFlagReturn ==
    /\ ingest.pc = "setFlag"
    /\ flags' = setFlag(flags, INITIAL_DATA_FLAG, "true")
    /\ ingest' = [ingest EXCEPT !.pc = "returned", !.status = "embedded"]
    /\ UNCHANGED <<rev, chat, docs, nextId, calls, deleted, upload, pure, sysVars>>

NextIngest ==
    \/ IngestStart
    \/ GetFlagReturn
    \/ IngestStepFail
    \/ \E chunks \in ProfileChunks : GetChunksReturn(chunks)
    \/ IngestEmbedReturn(ChunkEmbedding)
    \/ AddDocumentReturn
    \/ SetFlagReturn

SpecIngest == Init /\ [][NextIngest]_vars

FlagIsSet(fs) == getFlag(fs, INITIAL_DATA_FLAG) = "true"

\* every chunk of the run's profile is a row that the run inserted, with
\* the embedding computed for it
AllChunksStored ==
    /\ Len(ingest.chunks) >= 1
    /\ Len(ingest.stored) = Len(ingest.chunks)
    /\ \A j \in 1..Len(ingest.chunks) :
          \E d \in docs : /\ d.id = ingest.stored[j]
                          /\ d.text = ingest.chunks[j]
                          /\ d.embedding = ChunkEmbedding

\* C19: the flag 'initial_data_ingested_v1' is set to 'true' only after
\* every chunk of the base profile has been embedded and inserted; a run
\* whose source is unreadable or yields zero chunks, or in which an embed or
\* insert step fails (it ends in the catch block), does not set the flag
C19_FlagOnlyAfterAllChunks ==
    [][ /\ (FlagIsSet(flags') /\ ~FlagIsSet(flags)) =>
              (ingest.pc = "setFlag" /\ AllChunksStored)
        /\ (ingest.pc # "setFlag" \/ ingest'.status = "Error") =>
              flags' = flags ]_vars

\* a run stored every chunk of a profile of two and has set the flag, after
\* an earlier run failed
C19_Witness ==
    /\ ingest.pc = "returned"
    /\ ingest.status = "embedded"
    /\ ingest.run = 2
    /\ Len(ingest.chunks) = 2
    /\ FlagIsSet(flags)

(***************************************************************************)
(* The document screen: splitTextIntoChunks, and handleUpload, which picks *)
(* a file, extracts its text, splits it and stores every chunk.            *)
(***************************************************************************)
MaxTextLen == 4

MaxChunkSize == 3

MaxUploads == 1

\* if (text.length < 10) throw
MinTextLength == 10

\* chunkSize = 512
DefaultChunkSize == 512

\* s.slice(from, to), 0 <= from <= to
Slice(s, from, to) == SubSeq(s, from + 1, Min2(to, Len(s)))

\* for (let i = 0; i < text.length; i += chunkSize)
\*     chunks.push(text.slice(i, i + chunkSize));
RECURSIVE PushWindows(_, _, _, _)
PushWindows(text, chunkSize, i, chunks) ==
    IF i < Len(text)
    THEN PushWindows(text, chunkSize, i + chunkSize,
                     Append(chunks, Slice(text, i, i + chunkSize)))
    ELSE chunks

\* mutant of splitTextIntoChunks: the windows, unfiltered
splitTextIntoChunksUnfiltered(text, chunkSize) ==
    PushWindows(text, chunkSize, 0, <<>>)

\* return chunks.filter((chunk) => chunk.trim().length > 0), chunkSize >= 1
splitTextIntoChunks(text, chunkSize) ==
    SelectSeq(PushWindows(text, chunkSize, 0, <<>>),
              LAMBDA chunk : Len(Trim(chunk)) > 0)

TextChars == {" ", "a"}

\* the texts of at most MaxTextLen characters
Texts == UNION { [1..n -> TextChars] : n \in 0..MaxTextLen }

\* files the user can pick: their text, and whether the name includes
\* 'bank_profile_2025.json'.  The texts: too short to be accepted; blank;
\* one chunk within blanks; one character more than a chunk
PickedTexts ==
    { Rep(MinTextLength - 1, " "),
      Rep(MinTextLength, " "),
      Rep(MinTextLength - 1, " ") \o <<"a">>,
      Rep(DefaultChunkSize, "a") \o <<"b">> }

PickedFiles == [text : PickedTexts, profile : BOOLEAN]

NewUpload(run) ==
    [pc |-> "pick", run |-> run, uploading |-> TRUE, status |-> "Selecting",
     text |-> <<>>, profile |-> FALSE, chunks |-> <<>>, i |-> 0,
     embedding |-> <<>>, stored |-> <<>>]

InitSplit ==
    /\ rev \in Revisions
    /\ chat = <<>>
    /\ docs = {}
    /\ nextId = 1
    /\ calls = [c \in Callers |-> IdleCall]
    /\ deleted = {}
    /\ flags = {}
    /\ ingest = IdleIngest
    /\ upload = IdleUpload
    /\ startup = IdleStartup
    /\ reset = IdleReset
    /\ db = ClosedDb
    /\ pure \in [fn : {"splitTextIntoChunks"}, text : Texts,
                 chunkSize : 1..MaxChunkSize, returned : {<<>>}]

\* splitTextIntoChunks(text, chunkSize) returns
CallSplit ==
    /\ pure.fn = "splitTextIntoChunks"
    /\ pure.returned = <<>>
    /\ pure' = [pure EXCEPT
                   !.returned = <<splitTextIntoChunks(pure.text,
                                                      pure.chunkSize)>>]
    /\ UNCHANGED <<rev, chat, docs, nextId, calls, deleted, flags, ingest,
                   upload, sysVars>>

\* the user presses the upload button: setUploading(true) and the picker
HandleUploadStart ==
    /\ upload.pc \in {"idle", "returned"}
    /\ (IF upload.pc = "idle" THEN 0 ELSE upload.run) < MaxUploads
    /\ upload' = NewUpload(IF upload.pc = "idle" THEN 1 ELSE upload.run + 1)
    /\ UNCHANGED <<rev, chat, docs, nextId, calls, deleted, flags, ingest,
                   pure, sysVars>>

\* the catch block and the finally block: 'Error occurred.'
UploadCaught(u) ==
    [u EXCEPT !.pc = "returned", !.uploading = FALSE, !.status = "Error occurred"]

\* the picker resolves with no file: 'Upload cancelled.'
PickCancelled ==
    /\ upload.pc = "pick"
    /\ upload' = [upload EXCEPT !.pc = "returned", !.uploading = FALSE,
                                !.status = "Upload cancelled"]
    /\ UNCHANGED <<rev, chat, docs, nextId, calls, deleted, flags, ingest,
                   pure, sysVars>>

\* the picker resolves with a file, and extractTextFromFile is called
PickReturn(file) ==
    /\ upload.pc = "pick"
    /\ upload' = [upload EXCEPT !.pc = "extract", !.status = "Processing",
                                !.text = file.text, !.profile = file.profile]
    /\ UNCHANGED <<rev, chat, docs, nextId, calls, deleted, flags, ingest,
                   pure, sysVars>>

\* a catch block that would remove the rows of the run
UploadStepFailRollsBack ==
    /\ upload.pc \in {"pick", "extract", "embedText", "addDocument"}
    /\ upload' = UploadCaught(upload)
    /\ docs' = { d \in docs : \A j \in 1..Len(upload.stored) :
                                  d.id # upload.stored[j] }
    /\ UNCHANGED <<rev, chat, nextId, calls, deleted, flags, ingest,
                   pure, sysVars>>

\* an awaited step rejects (the picker, the file read, the embedder, the
\* store)
UploadStepFail ==
    /\ upload.pc \in {"pick", "extract", "embedText", "addDocument"}
    /\ upload' = UploadCaught(upload)
    /\ UNCHANGED <<rev, chat, docs, nextId, calls, deleted, flags, ingest,
                   pure, sysVars>>

\* the chunks of the extracted text: parsed, the result of
\* getChunksFromProfile for a profile file, none if JSON.parse throws
ChunksOf(u, parsed) ==
    IF u.profile THEN parsed
    ELSE splitTextIntoChunks(u.text, DefaultChunkSize)

\* readAsStringAsync resolves; a text below MinTextLength throws, and so
\* does a profile that does not parse (a blank text never parses); no chunk
\* ends the handler with 'Error: No text chunks created.'; otherwise the
\* loop starts
ExtractReturn(parsed) ==
    /\ upload.pc = "extract"
    /\ Trim(upload.text) = <<>> => parsed = <<>>
    /\ upload' =
         IF Len(upload.text) < MinTextLength THEN UploadCaught(upload)
         ELSE IF upload.profile /\ parsed = <<>> THEN UploadCaught(upload)
         ELSE IF Len(ChunksOf(upload, parsed)) = 0
         THEN [upload EXCEPT !.pc = "returned", !.uploading = FALSE,
                             !.status = "No text chunks created"]
         ELSE [upload EXCEPT !.pc = "embedText", !.status = "Embedding",
                             !.chunks = ChunksOf(upload, parsed), !.i = 1]
    /\ UNCHANGED <<rev, chat, docs, nextId, calls, deleted, flags, ingest,
                   pure, sysVars>>

\* embedText(chunk) resolves
UploadEmbedReturn(v) ==
    /\ upload.pc = "embedText"
    /\ upload' = [upload EXCEPT !.pc = "addDocument", !.embedding = v]
    /\ UNCHANGED <<rev, chat, docs, nextId, calls, deleted, flags, ingest,
                   pure, sysVars>>

\* addDocument(chunk, embedding) resolves; after the last chunk the handler
\* reports success and the finally block runs
UploadAddReturn ==
    /\ upload.pc = "addDocument"
    /\ docs' = AddDocument(docs, nextId, upload.chunks[upload.i],
                           upload.embedding)
    /\ nextId' = nextId + 1
    /\ upload' =
         IF upload.i = Len(upload.chunks)
         THEN [upload EXCEPT !.pc = "returned", !.uploading = FALSE,
                             !.status = "Completed", !.i = @ + 1,
                             !.stored = Append(@, nextId)]
         ELSE [upload EXCEPT !.pc = "embedText", !.i = @ + 1,
                             !.stored = Append(@, nextId)]
    /\ UNCHANGED <<rev, chat, calls, deleted, flags, ingest, pure, sysVars>>

NextSplit ==
    \/ CallSplit
    \/ HandleUploadStart
    \/ PickCancelled
    \/ \E file \in PickedFiles : PickReturn(file)
    \/ UploadStepFail
    \/ \E parsed \in ProfileChunks : ExtractReturn(parsed)
    \/ UploadEmbedReturn(ChunkEmbedding)
    \/ UploadAddReturn

SpecSplit == InitSplit /\ [][NextSplit]_vars

\* the number of chunkSize-character windows of a text of n characters
WindowCount(n, chunkSize) == (n + chunkSize - 1) \div chunkSize

\* the k-th window of the text, k >= 1
Window(text, chunkSize, k) ==
    [j \in 1..Min2(chunkSize, Len(text) - (k - 1) * chunkSize) |->
        text[(k - 1) * chunkSize + j]]

WhitespaceOnly(s) == \A j \in 1..Len(s) : IsSpace(s[j])

\* units is, in source order, the windows of the text that are not
\* whitespace-only
IsWindowsKept(units, text, chunkSize) ==
    LET kept == { k \in 1..WindowCount(Len(text), chunkSize) :
                    ~WhitespaceOnly(Window(text, chunkSize, k)) }
    IN  /\ Len(units) = Cardinality(kept)
        /\ \A k \in kept :
              units[Cardinality({h \in kept : h <= k})]
                = Window(text, chunkSize, k)

\* C20: for every text and chunk size, splitTextIntoChunks emits, in source
\* order, exactly the consecutive chunkSize-character windows of the text
\* that are not whitespace-only; every emitted unit is non-empty after
\* trimming; a text that is empty after trimming yields zero units, and
\* handleUpload then inserts nothing
C20_SplitEmitsNonBlankWindows ==
    /\ (pure.fn = "splitTextIntoChunks" /\ pure.returned # <<>>) =>
          LET units == pure.returned[1]
          IN  /\ IsWindowsKept(units, pure.text, pure.chunkSize)
              /\ \A j \in 1..Len(units) : Trim(units[j]) # <<>>
              /\ (Trim(pure.text) = <<>> => units = <<>>)
    /\ (upload.pc \notin {"idle", "pick"} /\ Trim(upload.text) = <<>>) =>
          /\ upload.stored = <<>>
          /\ upload.pc \in {"extract", "returned"}

\* a text whose blank second window was dropped between two kept ones, and
\* an upload of a blank text of MinTextLength characters that ended with
\* no chunk and no row
C20_Witness ==
    /\ pure.fn = "splitTextIntoChunks"
    /\ pure.text = <<"a", " ", "a">>
    /\ pure.chunkSize = 1
    /\ pure.returned = << <<(<<"a">>), (<<"a">>)>> >>
    /\ upload.pc = "returned"
    /\ upload.status = "No text chunks created"
    /\ Len(upload.text) = MinTextLength
    /\ docs = {}

(***************************************************************************)
(* getChunksFromProfile, the structured splitter of a ledger, in its two   *)
(* revisions: the one of the document screen ("upload", data.accounts is   *)
(* a list) and the one of dataIngestionService ("ingest", data.accounts is *)
(* one account).  A ledger is whether it has a user_profile and, for each  *)
(* account, its transactions in input order; a transaction is its position *)
(* n and the calendar month of its date.  A unit is a record of its kind   *)
(* and of what its text is built from; a line of a month unit is the       *)
(* transaction it is formatted from.                                       *)
(***************************************************************************)
MaxAccounts == 2

MaxEntries == 2

MaxMonths == 2

Screens == {"upload", "ingest"}

\* the transaction lists of an account: a month for each position
EntryLists ==
    { [n \in 1..len |-> [n |-> n, month |-> ms[n]]] :
        len \in 0..MaxEntries, ms \in [1..MaxEntries -> 1..MaxMonths] }

Ledgers ==
    [hasProfile : BOOLEAN,
     accounts : UNION { [1..k -> EntryLists] : k \in 0..MaxAccounts }]

\* mutant of AddToGroups: every transaction opens a list of its own
AddToGroupsAlwaysNew(groups, trans) ==
    Append(groups, [month |-> trans.month, transactions |-> <<trans>>])

\* if (!monthlyTransactions[month]) monthlyTransactions[month] = [];
\* monthlyTransactions[month].push(trans); the keys keep insertion order
AddToGroups(groups, trans) ==
    IF \E i \in 1..Len(groups) : groups[i].month = trans.month
    THEN LET i == CHOOSE j \in 1..Len(groups) :
                     groups[j].month = trans.month
         IN  [groups EXCEPT ![i].transactions = Append(@, trans)]
    ELSE Append(groups, [month |-> trans.month, transactions |-> <<trans>>])

\* for (const trans of account.transactions) ...
RECURSIVE GroupFrom(_, _, _)
GroupFrom(transactions, i, groups) ==
    IF i > Len(transactions) THEN groups
    ELSE GroupFrom(transactions, i + 1, AddToGroups(groups, transactions[i]))

\* for (const [month, transactions] of Object.entries(monthlyTransactions))
\*     chunks.push(`${month} Transaction History for ...:\n` + the lines)
MonthUnits(a, transactions) ==
    LET groups == GroupFrom(transactions, 1, <<>>)
    IN  [g \in 1..Len(groups) |->
            [kind |-> "month", account |-> a, month |-> groups[g].month,
             lines |-> [j \in 1..Len(groups[g].transactions) |->
                           groups[g].transactions[j].n]]]

ProfileUnit == [kind |-> "profile", account |-> 0, month |-> 0, lines |-> <<>>]

AccountUnit(a) ==
    [kind |-> "account", account |-> a, month |-> 0, lines |-> <<>>]

\* the units of the accounts a, a + 1, ...; withSummary: the 'Account
\* Summary' unit of the upload revision
RECURSIVE AccountsFrom(_, _, _, _)
AccountsFrom(accounts, a, withSummary, chunks) ==
    IF a > Len(accounts) THEN chunks
    ELSE AccountsFrom(accounts, a + 1, withSummary,
             (IF withSummary THEN Append(chunks, AccountUnit(a)) ELSE chunks)
                \o MonthUnits(a, accounts[a]))

Thrown == [threw |-> TRUE, chunks |-> <<>>]

\* the chunks returned, or the throw: in the upload revision for a ledger
\* without user_profile or without accounts (a TypeError), in the ingest
\* revision for one without accounts
getChunksFromProfile(screen, data) ==
    IF screen = "upload"
    THEN IF ~data.hasProfile \/ Len(data.accounts) = 0 THEN Thrown
         ELSE [threw |-> FALSE,
               chunks |-> AccountsFrom(data.accounts, 1, TRUE, <<ProfileUnit>>)]
    ELSE IF Len(data.accounts) = 0 THEN Thrown
         ELSE [threw |-> FALSE,
               chunks |-> AccountsFrom(data.accounts, 1, FALSE,
                              IF data.hasProfile THEN <<ProfileUnit>>
                              ELSE <<>>)]

InitLedger ==
    /\ rev \in Revisions
    /\ chat = <<>>
    /\ docs = {}
    /\ nextId = 1
    /\ calls = [c \in Callers |-> IdleCall]
    /\ deleted = {}
    /\ flags = {}
    /\ ingest = IdleIngest
    /\ upload = IdleUpload
    /\ startup = IdleStartup
    /\ reset = IdleReset
    /\ db = ClosedDb
    /\ pure \in { p \in [fn : {"getChunksFromProfile"}, screen : Screens,
                          data : Ledgers, returned : {<<>>}] :
                     p.screen = "ingest" => Len(p.data.accounts) <= 1 }

\* getChunksFromProfile returns or throws
CallGetChunks ==
    /\ pure.fn = "getChunksFromProfile"
    /\ pure.returned = <<>>
    /\ pure' = [pure EXCEPT
                   !.returned = <<getChunksFromProfile(pure.screen,
                                                       pure.data)>>]
    /\ UNCHANGED <<rev, chat, docs, nextId, calls, deleted, flags, ingest,
                   upload, sysVars>>

SpecLedger == InitLedger /\ [][CallGetChunks]_vars

\* the positions of units of a kind, an account and a month
UnitsAt(units, kind, a, m) ==
    { i \in 1..Len(units) :
        units[i].kind = kind /\ units[i].account = a /\ units[i].month = m }

\* the transactions of account a dated in month m, in input order
EntriesOf(data, a, m) ==
    LET sel == SelectSeq(data.accounts[a], LAMBDA t : t.month = m)
    IN  [j \in 1..Len(sel) |-> sel[j].n]

\* one unit for each (account, month) group with an entry, holding the
\* entries of the group as its lines in input order, and none for a group
\* without entries
MonthGroupsExact(units, data) ==
    \A a \in 1..Len(data.accounts), m \in 1..MaxMonths :
        IF EntriesOf(data, a, m) = <<>>
        THEN UnitsAt(units, "month", a, m) = {}
        ELSE /\ Cardinality(UnitsAt(units, "month", a, m)) = 1
             /\ \A i \in UnitsAt(units, "month", a, m) :
                   units[i].lines = EntriesOf(data, a, m)

KindCount(units, kind) ==
    Cardinality({i \in 1..Len(units) : units[i].kind = kind})

Returned(fn) == pure.fn = fn /\ pure.returned # <<>>

\* C21: for a ledger input (one with a user_profile), the structured
\* splitter emits exactly one unit for the profile summary and exactly one
\* unit per (account, calendar-month) group that has at least one entry, and
\* no other unit; every dated entry is exactly one line of exactly one unit,
\* the one of its account and month, in input order
C21_ProfileAndMonthUnitsOnly ==
    (Returned("getChunksFromProfile") /\ ~pure.returned[1].threw
        /\ pure.data.hasProfile) =>
        LET units == pure.returned[1].chunks
        IN  /\ KindCount(units, "profile") = 1
            /\ MonthGroupsExact(units, pure.data)
            /\ KindCount(units, "profile") + KindCount(units, "month")
                  = Len(units)

\* C21 as the code has it: one user profile unit if the ledger has a
\* user_profile, in the upload revision one 'Account Summary' unit for every
\* account, one unit per (account, month) group with an entry holding the
\* entries of the group in input order, and no other unit
C21_UnitsOfTheLedger ==
    (Returned("getChunksFromProfile") /\ ~pure.returned[1].threw) =>
        LET units == pure.returned[1].chunks
            data == pure.data
        IN  /\ KindCount(units, "profile") = (IF data.hasProfile THEN 1 ELSE 0)
            /\ \A a \in 1..Len(data.accounts) :
                  Cardinality(UnitsAt(units, "account", a, 0))
                    = (IF pure.screen = "upload" THEN 1 ELSE 0)
            /\ MonthGroupsExact(units, data)
            /\ KindCount(units, "profile") + KindCount(units, "month")
                  + (IF pure.screen = "upload" THEN Len(data.accounts) ELSE 0)
                  = Len(units)

\* the upload revision returned the units of two accounts, the first with
\* two entries of one month
C21_Witness ==
    /\ Returned("getChunksFromProfile")
    /\ pure.screen = "upload"
    /\ Len(pure.data.accounts) = 2
    /\ Len(pure.data.accounts[1]) = 2
    /\ pure.data.accounts[1][1].month = pure.data.accounts[1][2].month
    /\ ~pure.returned[1].threw
    /\ Len(pure.returned[1].chunks) >= 4

(***************************************************************************)
(* The setup screen: checkAndInit, run when the screen mounts and again    *)
(* from the 'Retry Setup' button, which is shown once a run has failed.    *)
(* The application screens, from which answerQuery is called, are shown    *)
(* only after router.replace.                                              *)
(***************************************************************************)
MaxStartups == 2

\* Chat Memory as an earlier session can have left it
EarlierChats ==
    { <<>>, << Turn("user", QLong), Turn("assistant", <<"w">>) >> }

InitStartup ==
    /\ rev \in Revisions
    /\ chat \in EarlierChats
    /\ docs = {}
    /\ nextId = 1
    /\ calls = [c \in Callers |-> IdleCall]
    /\ deleted = {}
    /\ flags = {}
    /\ ingest = IdleIngest
    /\ upload = IdleUpload
    /\ startup = IdleStartup
    /\ reset = IdleReset
    /\ db = ClosedDb
    /\ pure = <<>>

\* useEffect, or the retry button (error && !loading): setError(null),
\* setLoading(true), and the model files are looked up and initialised
CheckAndInit ==
    /\ \/ startup.pc = "idle"
       \/ startup.pc = "returned" /\ startup.error # "null"
                                  /\ ~startup.loading
    /\ startup.run < MaxStartups
    /\ startup' = [startup EXCEPT !.pc = "initModels", !.run = @ + 1,
                                  !.loading = TRUE, !.error = "null"]
    /\ UNCHANGED <<rev, chat, docs, nextId, calls, deleted, flags, ingest,
                   upload, pure, reset, db>>

\* the catch block: setError(message), setLoading(false); the setup screen
\* stays
StartupCaught(st) ==
    [st EXCEPT !.pc = "returned", !.error = "failed", !.loading = FALSE]

\* RNFS.exists or initModelsIfNeeded rejects, or clearChatMemory does
StartupStepFail ==
    /\ startup.pc \in {"initModels", "clearChatMemory"}
    /\ startup' = StartupCaught(startup)
    /\ UNCHANGED <<rev, chat, docs, nextId, calls, deleted, flags, ingest,
                   upload, pure, reset, db>>

\* the models are initialised, and ingestInitialDataIfNeeded is called
InitModelsReturn ==
    /\ startup.pc = "initModels"
    /\ startup' = [startup EXCEPT !.pc = "ingest"]
    /\ ingest' = NewIngest(startup.run)
    /\ UNCHANGED <<rev, chat, docs, nextId, calls, deleted, flags, upload,
                   pure, reset, db>>

\* ingestInitialDataIfNeeded returns (it catches its own errors), and
\* clearChatMemory is called
StartupIngestReturn ==
    /\ startup.pc = "ingest"
    /\ ingest.pc = "returned"
    /\ startup' = [startup EXCEPT !.pc = "clearChatMemory"]
    /\ UNCHANGED <<rev, chat, docs, nextId, calls, deleted, flags, ingest,
                   upload, pure, reset, db>>

\* mutant of ClearChatReturn: router.replace without the delete
ClearChatReturnKeepsRows ==
    /\ startup.pc = "clearChatMemory"
    /\ startup' = [startup EXCEPT !.pc = "returned", !.screen = "app"]
    /\ UNCHANGED <<rev, chat, docs, nextId, calls, deleted, flags, ingest,
                   upload, pure, reset, db>>

\* clearChatMemory resolves: the rows are deleted, and router.replace shows
\* the application screens
ClearChatReturn ==
    /\ startup.pc = "clearChatMemory"
    /\ chat' = ClearChatMemory(chat)
    /\ startup' = [startup EXCEPT !.pc = "returned", !.screen = "app"]
    /\ UNCHANGED <<rev, docs, nextId, calls, deleted, flags, ingest, upload,
                   pure, reset, db>>

\* the first answerQuery of the session, from the application screens
FirstQuery(c, q, k) ==
    /\ startup.screen = "app"
    /\ Start(c, q, k)

NextStartup ==
    \/ CheckAndInit
    \/ StartupStepFail
    \/ InitModelsReturn
    \/ GetFlagReturn
    \/ IngestStepFail
    \/ \E chunks \in ProfileChunks : GetChunksReturn(chunks)
    \/ IngestEmbedReturn(ChunkEmbedding)
    \/ AddDocumentReturn
    \/ SetFlagReturn
    \/ StartupIngestReturn
    \/ ClearChatReturn
    \/ \E c \in Callers, q \in Queries, k \in 0..MaxK : FirstQuery(c, q, k)
    \/ \E c \in Callers : GetHistoryReturn(c)

SpecStartup == InitStartup /\ [][NextStartup]_vars

\* C22: in every startup run of checkAndInit the application screens are
\* shown only after clearChatMemory has completed, so the first answerQuery
\* of the session reads an empty history; a run in which the model
\* initialisation or the clear failed does not navigate
C22_NavigationOnlyAfterClear ==
    /\ startup.screen = "app" =>
          /\ startup.pc = "returned"
          /\ startup.error = "null"
          /\ chat = <<>>
    /\ \A c \in Callers :
          calls[c].pc # "idle" =>
              /\ startup.screen = "app"
              /\ calls[c].history = <<>>
    /\ startup.error # "null" => startup.screen = "setup"

\* the first run failed, the retry ingested the profile, cleared Chat Memory
\* and navigated, and the first query has read its history
C22_Witness ==
    /\ startup.run = 2
    /\ startup.screen = "app"
    /\ \E c \in Callers : calls[c].pc \notin {"idle", "getHistory"}
    /\ docs # {}

\* ch with one row added at its end
OneRowAdded(old, new) ==
    /\ Len(new) = Len(old) + 1
    /\ SubSeq(new, 1, Len(old)) = old

\* C23: a turn is appended to Chat Memory only after the main generation of
\* the same answerQuery call has returned successfully, never before or
\* during rewriting, embedding, search or generation; the stored turns are
\* never modified afterwards (they are only cleared in bulk, between calls)
C23_AppendOnlyAfterGeneration ==
    [][ chat' # chat =>
          \/ chat' = <<>> /\ \A c \in Callers : Idle(c)
          \/ \E c \in Callers :
                /\ calls[c].pc \in {"saveUser", "saveAssistant"}
                /\ "generation" \notin calls[c].faults
                /\ OneRowAdded(chat, chat')
                /\ chat'[Len(chat')] \in
                      { Turn("user", calls[c].query),
                        Turn("assistant", calls[c].reply) } ]_vars

\* a second exchange was stored behind the first, after a rewrite
C23_Witness ==
    \E c \in Callers :
        /\ calls[c].pc = "done"
        /\ calls[c].rewriteCalls = 1
        /\ Len(calls[c].appended) = 2
        /\ Len(chat) = 4
        /\ SubSeq(chat, 3, 4) = calls[c].appended

(***************************************************************************)
(* The decision to rewrite, on queries that tell the parts of the          *)
(* ambiguity test apart, with and without an exchange in Chat Memory.      *)
(***************************************************************************)
\* short, no anaphoric word
QShort == <<"h", "i">>

\* VagueLength characters, ending in the whole word 'It'
QLongIt == Rep(VagueLength - 3, "x") \o <<" ", "I", "t">>

\* VagueLength characters, 'it' only inside the word 'item'
QLongItem == Rep(VagueLength - 5, "x") \o <<" ", "i", "t", "e", "m">>

AmbiguityQueries == {QIt, QShort, QLong, QLongIt, QLongItem}

InitRewrite ==
    /\ rev \in Revisions
    /\ chat \in EarlierChats
    /\ docs = {}
    /\ nextId = 1
    /\ calls = [c \in Callers |-> IdleCall]
    /\ deleted = {}
    /\ flags = {}
    /\ ingest = IdleIngest
    /\ upload = IdleUpload
    /\ startup = IdleStartup
    /\ reset = IdleReset
    /\ db = ClosedDb
    /\ pure = <<>>

NextRewrite ==
    \/ \E c \in Callers, q \in AmbiguityQueries : Start(c, q, 0)
    \/ \E c \in Callers : GetHistoryReturn(c)
    \/ \E c \in Callers : GetHistoryReturnNoRewriter(c)
    \/ \E c \in Callers, t \in RewriteTexts : RewriteReturn(c, t)
    \/ \E c \in Callers : RewriteFail(c)
    \/ \E c \in Callers, v \in QueryVecs : EmbedReturn(c, v)

SpecRewrite == InitRewrite /\ [][NextRewrite]_vars

AnaphoricWords ==
    { <<"t","h","a","t">>, <<"t","h","i","s">>, <<"i","t">>,
      <<"t","h","o","s","e">>, <<"t","h","e","s","e">>,
      <<"h","i","m">>, <<"h","e","r">>, <<"t","h","e","m">> }

\* q contains one of the anaphoric words as a whole word, in any letter case
HasAnaphoricWord(q) ==
    \E i \in 1..Len(q), w \in AnaphoricWords :
        /\ MatchAt(q, i, w)
        /\ (i > 1 => ~IsWordChar(q[i - 1]))
        /\ (i + Len(w) <= Len(q) => ~IsWordChar(q[i + Len(w)]))

\* the rewrite block was entered: the rewriter engine was asked for, and
\* called unless it could not be obtained
RewriteAttempted(call) == call.rewriteCalls > 0 \/ "rewrite" \in call.faults

\* a call decided on the rewrite iff the history it read is non-empty and
\* ambiguous(query); if not ambiguous it made no rewrite call and its
\* retrieval query is the original
RewriteIffAmbiguous(call, ambiguous) ==
    call.pc \in PostRewrite \cup {"rewriting"} =>
        /\ RewriteAttempted(call) <=> (call.history # <<>> /\ ambiguous)
        /\ ~ambiguous =>
              /\ call.rewriteCalls = 0
              /\ call.retrievalQuery = call.query

\* C24: a rewrite generation is attempted if and only if the history is
\* non-empty and the query is ambiguous: it contains one of the anaphoric
\* words as a whole word in any letter case, or its length is below 25
\* characters; for a non-ambiguous query no rewrite call is made and the
\* retrieval query is the original, whatever the history
C24_RewriteIffAmbiguous ==
    \A c \in Callers :
        RewriteIffAmbiguous(calls[c],
            HasAnaphoricWord(calls[c].query)
                \/ Len(calls[c].query) < VagueLength)

\* C24 as the code has it: the length below 25 makes a query ambiguous in
\* the Gemma revision only; the Granite revision tests the words alone
C24_RewriteIffAmbiguousPerRevision ==
    \A c \in Callers :
        RewriteIffAmbiguous(calls[c],
            HasAnaphoricWord(calls[c].query)
                \/ (rev = "gemma" /\ Len(calls[c].query) < VagueLength))

\* on a non-empty history: the long query with 'It' was sent to the
\* rewriter, or the one with 'item' was embedded as it is
C24_Witness ==
    \E c \in Callers :
        /\ calls[c].history # <<>>
        /\ \/ calls[c].query = QLongIt /\ calls[c].pc = "rewriting"
           \/ calls[c].query = QLongItem /\ calls[c].pc = "getDocs"
                                         /\ calls[c].rewriteCalls = 0

(***************************************************************************)
(* answerQuery on a store that holds the ingested profile: two units and   *)
(* the ingestion flag, as a successful run of ingestInitialDataIfNeeded    *)
(* leaves them.                                                            *)
(***************************************************************************)
IngestedDocs ==
    AddDocument(AddDocument({}, 1, ChunkText(1), <<1, 1>>),
                2, ChunkText(2), <<1, 3>>)

InitFrame ==
    /\ rev \in Revisions
    /\ chat = <<>>
    /\ docs = IngestedDocs
    /\ nextId = 3
    /\ calls = [c \in Callers |-> IdleCall]
    /\ deleted = {}
    /\ flags = setFlag({}, INITIAL_DATA_FLAG, "true")
    /\ ingest = IdleIngest
    /\ upload = IdleUpload
    /\ startup = IdleStartup
    /\ reset = IdleReset
    /\ db = ClosedDb
    /\ pure = <<>>

NextFrame ==
    \/ \E c \in Callers, q \in Queries : Start(c, q, MaxDocs)
    \/ \E c \in Callers : GetHistoryReturn(c)
    \/ \E c \in Callers : GetHistoryFail(c)
    \/ \E c \in Callers : RewriteReturn(c, RewriteText(0, 0, 11))
    \/ \E c \in Callers : RewriteFail(c)
    \/ \E c \in Callers : EmbedReturn(c, <<1, 0>>)
    \/ \E c \in Callers : EmbedFail(c)
    \/ \E c \in Callers : GetDocsReturn(c)
    \/ \E c \in Callers : GetDocsFail(c)
    \/ \E c \in Callers, raw \in RawReplies : GenReturn(c, raw)
    \/ \E c \in Callers : GenFail(c)
    \/ \E c \in Callers : SaveUserReturn(c)
    \/ \E c \in Callers : SaveUserFail(c)
    \/ \E c \in Callers : SaveAssistantReturn(c)
    \/ \E c \in Callers : SaveAssistantFail(c)
    \/ \E c \in Callers : Settle(c)

SpecFrame == InitFrame /\ [][NextFrame]_vars

\* C25: answerQuery never changes the Vector Index or the flags: every
\* step of a call, on every path, leaves the stored units and the flag
\* values as they were, and its only store writes are the appends to Chat
\* Memory of its last two steps
C25_QueryLeavesIndexAndFlags ==
    [][ calls' # calls =>
          /\ docs' = docs
          /\ flags' = flags
          /\ \/ chat' = chat
             \/ /\ OneRowAdded(chat, chat')
                /\ \E c \in Callers :
                      calls[c].pc \in {"saveUser", "saveAssistant"} ]_vars

\* a call on the ingested store failed to rewrite, selected both units and
\* returned its reply
C25_Witness ==
    \E c \in Callers :
        /\ calls[c].pc = "done"
        /\ calls[c].result = "reply"
        /\ "rewrite" \in calls[c].faults
        /\ Len(calls[c].allDocs) = 2
        /\ docs = IngestedDocs
        /\ FlagIsSet(flags)

\* no answerQuery call is under way
Quiescent == \A c \in DOMAIN calls : ~Active(c)

\* ch is a sequence of exchanges: a user turn, then an assistant turn
CompleteExchanges(ch) ==
    /\ Len(ch) % 2 = 0
    /\ \A i \in 1..Len(ch) :
          ch[i].role = (IF i % 2 = 1 THEN "user" ELSE "assistant")

\* C26: after any sequence of answerQuery calls within a session, overlapping
\* calls and calls with a failed store append included, Chat Memory is a
\* sequence of complete exchanges: of even length, the turns alternating
\* user, assistant, each user turn followed by the reply of the same call
C26_ChatIsCompleteExchanges ==
    Quiescent =>
        /\ CompleteExchanges(chat)
        /\ \A c \in DOMAIN calls :
              calls[c].pc = "done" /\ calls[c].appended # <<>> =>
                  \E i \in 1..(Len(chat) - 1) :
                      SubSeq(chat, i, i + 1) = calls[c].appended

\* C27: across any sequence of ingestInitialDataIfNeeded runs, runs that
\* fail part-way and are followed by a later run included, each chunk of the
\* base profile is stored in the Vector Index at most once; once the flag is
\* 'true' a further run inserts no unit
C27_ChunksStoredAtMostOnce ==
    /\ \A d1, d2 \in docs : d1.text = d2.text => d1 = d2
    /\ ingest.pc # "idle" /\ ingest.status = "already loaded" =>
          ingest.stored = <<>>

\* the part of C27 that the code keeps: a run that finds the flag 'true'
\* inserts nothing
C27_NoInsertOnceFlagged ==
    ingest.pc # "idle" /\ ingest.status = "already loaded" =>
        ingest.stored = <<>>

(***************************************************************************)
(* The document screen's reset: handleResetRAG calls resetRAGDatabase,     *)
(* which deletes the documents and then the flags, on a store that holds   *)
(* the ingested profile.  ingestInitialDataIfNeeded runs at the next start *)
(* of the application.                                                     *)
(***************************************************************************)
MaxResets == 1

InitReset ==
    /\ rev \in Revisions
    /\ chat \in EarlierChats
    /\ docs = IngestedDocs
    /\ nextId = 3
    /\ calls = [c \in Callers |-> IdleCall]
    /\ deleted = {}
    /\ flags = setFlag({}, INITIAL_DATA_FLAG, "true")
    /\ ingest = IdleIngest
    /\ upload = IdleUpload
    /\ startup = IdleStartup
    /\ reset = IdleReset
    /\ db = ClosedDb
    /\ pure = <<>>

\* the user confirms the reset: resetRAGDatabase is called
HandleResetRAG ==
    /\ reset.pc \in {"idle", "returned"}
    /\ (IF reset.pc = "idle" THEN 0 ELSE reset.run) < MaxResets
    /\ ingest.pc \in {"idle", "returned"}
    /\ reset' = [pc |-> "deleteDocuments", status |-> "none",
                 run |-> IF reset.pc = "idle" THEN 1 ELSE reset.run + 1]
    /\ UNCHANGED <<rev, chat, docs, nextId, calls, deleted, flags, ingest,
                   upload, pure, startup, db>>

\* DELETE FROM documents resolves
DeleteDocumentsReturn ==
    /\ reset.pc = "deleteDocuments"
    /\ docs' = {}
    /\ reset' = [reset EXCEPT !.pc = "deleteAppState"]
    /\ UNCHANGED <<rev, chat, nextId, calls, deleted, flags, ingest, upload,
                   pure, startup, db>>

\* DELETE FROM app_state resolves: 'Delete Complete'
DeleteAppStateReturn ==
    /\ reset.pc = "deleteAppState"
    /\ flags' = {}
    /\ reset' = [reset EXCEPT !.pc = "returned", !.status = "complete"]
    /\ UNCHANGED <<rev, chat, docs, nextId, calls, deleted, ingest, upload,
                   pure, startup, db>>

\* one of the two statements rejects: 'Failed to reset the RAG database.'
ResetStepFail ==
    /\ reset.pc \in {"deleteDocuments", "deleteAppState"}
    /\ reset' = [reset EXCEPT !.pc = "returned", !.status = "failed"]
    /\ UNCHANGED <<rev, chat, docs, nextId, calls, deleted, flags, ingest,
                   upload, pure, startup, db>>

\* the application is started again, with no reset under way
RestartIngest ==
    /\ reset.pc \in {"idle", "returned"}
    /\ IngestStart

NextReset ==
    \/ HandleResetRAG
    \/ DeleteDocumentsReturn
    \/ DeleteAppStateReturn
    \/ ResetStepFail
    \/ RestartIngest
    \/ GetFlagReturn
    \/ IngestStepFail
    \/ \E chunks \in ProfileChunks : GetChunksReturn(chunks)
    \/ IngestEmbedReturn(ChunkEmbedding)
    \/ AddDocumentReturn
    \/ SetFlagReturn

SpecReset == InitReset /\ [][NextReset]_vars

\* the step in which resetRAGDatabase returns successfully leaves no unit
\* and no flag, and Chat Memory as it was
ResetReturnsEmpty ==
    (reset.pc # "returned" /\ reset'.pc = "returned"
        /\ reset'.status = "complete") =>
        (docs' = {} /\ flags' = {} /\ chat' = chat)

\* C28: after resetRAGDatabase returns successfully the Vector Index holds
\* no unit and every flag is absent (so the next run of
\* ingestInitialDataIfNeeded ingests again), and Chat Memory is unchanged;
\* in no state after a reset attempt, one that fails between its two
\* deletes included, are the units gone while the ingestion flag is 'true'
C28_ResetClearsUnitsAndFlags ==
    /\ [][ResetReturnsEmpty]_vars
    /\ [](reset.pc # "idle" => ~(docs = {} /\ FlagIsSet(flags)))

\* the part of C28 that the code keeps: the state in which a successful
\* reset returns
C28_SuccessfulResetIsEmpty == [][ResetReturnsEmpty]_vars

\* the reset failed at its second delete: no unit, and the flag is 'true'
C28_UnitsGoneFlagKept ==
    /\ reset.pc = "returned"
    /\ reset.status = "failed"
    /\ docs = {}
    /\ FlagIsSet(flags)

(***************************************************************************)
(* handleUpload: the loop over the chunks of the picked file.              *)
(***************************************************************************)
\* the rows a run has inserted so far are the last n rows of the store, and
\* they hold chunks 1..n of the file in chunk order
StoredPrefix(n) ==
    /\ Len(upload.stored) = n
    /\ n <= Len(upload.chunks)
    /\ \A j \in 1..n :
          /\ upload.stored[j] = nextId - n + j - 1
          /\ \E d \in docs : /\ d.id = upload.stored[j]
                              /\ d.text = upload.chunks[j]
    /\ Cardinality(docs) = nextId - 1

UploadFailedAtChunk ==
    /\ upload.pc = "returned"
    /\ upload.status = "Error occurred"
    /\ upload.i >= 1

\* C29: handleUpload embeds and inserts the chunks one at a time in chunk
\* order; when the embedding or the insert of chunk i fails, exactly chunks
\* 1..i-1 of the file remain stored; a completed run has stored every
\* chunk; and a run that has ended, by cancel, zero chunks, failure or
\* success, has uploading = false
C29_UploadStoresPrefixInOrder ==
    /\ upload.pc \in {"embedText", "addDocument"} =>
          (upload.uploading /\ StoredPrefix(upload.i - 1))
    /\ UploadFailedAtChunk => StoredPrefix(upload.i - 1)
    /\ (upload.pc = "returned" /\ upload.status = "Completed") =>
          StoredPrefix(Len(upload.chunks))
    /\ (upload.pc = "returned" /\ upload.i = 0) => StoredPrefix(0)
    /\ upload.pc = "returned" => ~upload.uploading

\* the second chunk of a file failed after the first was stored
C29_Witness ==
    /\ UploadFailedAtChunk
    /\ upload.i = 2
    /\ Len(upload.stored) = 1
    /\ Cardinality(docs) = 1
    /\ ~upload.uploading

(***************************************************************************)
(* getDB: the module variable dbPromise, the initialisation attempts (open *)
(* the database, then create the three tables) and the store functions     *)
(* that await the handle.  db.promise is 0 for null, otherwise the number  *)
(* of the attempt whose promise dbPromise holds.                           *)
(***************************************************************************)
MaxAttempts == 2
MaxOps == 3

Tables == {"documents", "chat_memory", "app_state"}

\* the store functions of the model: initDB only awaits getDB, getFlag
\* executes one statement on the handle
StoreFunctions == {"initDB", "getFlag"}

InitDb ==
    /\ rev \in Revisions
    /\ chat = <<>>
    /\ docs = {}
    /\ nextId = 1
    /\ calls = [c \in Callers |-> IdleCall]
    /\ deleted = {}
    /\ flags = {}
    /\ ingest = IdleIngest
    /\ upload = IdleUpload
    /\ startup = IdleStartup
    /\ reset = IdleReset
    /\ db = ClosedDb
    /\ pure = <<>>

\* getDB(): with dbPromise null a new attempt starts, runs up to its first
\* await and its promise is assigned to dbPromise; dbPromise is returned
getDB(d) ==
    IF d.promise = 0
    THEN [d EXCEPT !.attempts = Append(@, "opening"),
                   !.promise = Len(d.attempts) + 1]
    ELSE d

\* a store function is called: const db = await getDB()
StoreCall(fn) ==
    /\ Len(db.ops) < MaxOps
    /\ db.promise = 0 => Len(db.attempts) < MaxAttempts
    /\ LET d == getDB(db)
       IN db' = [d EXCEPT !.ops = Append(@, [fn |-> fn, pc |-> "awaitDb",
                                             attempt |-> d.promise])]
    /\ UNCHANGED <<rev, chat, docs, nextId, calls, deleted, flags, ingest,
                   upload, pure, startup, reset>>

\* SQLite.openDatabase resolves; CREATE TABLE documents is executed
OpenReturn(a) ==
    /\ db.attempts[a] = "opening"
    /\ db' = [db EXCEPT !.attempts[a] = "documents"]
    /\ UNCHANGED <<rev, chat, docs, nextId, calls, deleted, flags, ingest,
                   upload, pure, startup, reset>>

\* a CREATE TABLE IF NOT EXISTS resolves; after the third the attempt
\* returns the handle
CreateTableReturn(a) ==
    /\ db.attempts[a] \in Tables
    /\ db' = [db EXCEPT !.tables = @ \cup {db.attempts[a]},
                        !.attempts[a] =
                            CASE @ = "documents" -> "chat_memory"
                              [] @ = "chat_memory" -> "app_state"
                              [] @ = "app_state" -> "resolved"]
    /\ UNCHANGED <<rev, chat, docs, nextId, calls, deleted, flags, ingest,
                   upload, pure, startup, reset>>

\* a catch block that would leave the rejected promise in dbPromise
AttemptFailKeepsPromise(a) ==
    /\ db.attempts[a] \in {"opening"} \cup Tables
    /\ db' = [db EXCEPT !.attempts[a] = "rejected"]
    /\ UNCHANGED <<rev, chat, docs, nextId, calls, deleted, flags, ingest,
                   upload, pure, startup, reset>>

\* the open or a CREATE TABLE rejects: the catch block sets dbPromise to
\* null and rethrows
AttemptFail(a) ==
    /\ db.attempts[a] \in {"opening"} \cup Tables
    /\ db' = [db EXCEPT !.attempts[a] = "rejected", !.promise = 0]
    /\ UNCHANGED <<rev, chat, docs, nextId, calls, deleted, flags, ingest,
                   upload, pure, startup, reset>>

\* the awaited promise is fulfilled: the function has the handle; initDB
\* returns it, the others execute their statement
OpGetsHandle(o) ==
    /\ db.ops[o].pc = "awaitDb"
    /\ db.attempts[db.ops[o].attempt] = "resolved"
    /\ db' = [db EXCEPT !.ops[o].pc =
                            IF db.ops[o].fn = "initDB" THEN "returned"
                            ELSE "executeSql"]
    /\ UNCHANGED <<rev, chat, docs, nextId, calls, deleted, flags, ingest,
                   upload, pure, startup, reset>>

\* the awaited promise is rejected: the function throws
OpSeesFailure(o) ==
    /\ db.ops[o].pc = "awaitDb"
    /\ db.attempts[db.ops[o].attempt] = "rejected"
    /\ db' = [db EXCEPT !.ops[o].pc = "threw"]
    /\ UNCHANGED <<rev, chat, docs, nextId, calls, deleted, flags, ingest,
                   upload, pure, startup, reset>>

\* the statement of the store function resolves
OpSqlReturn(o) ==
    /\ db.ops[o].pc = "executeSql"
    /\ db' = [db EXCEPT !.ops[o].pc = "returned"]
    /\ UNCHANGED <<rev, chat, docs, nextId, calls, deleted, flags, ingest,
                   upload, pure, startup, reset>>

NextDb ==
    \/ \E fn \in StoreFunctions : StoreCall(fn)
    \/ \E a \in 1..Len(db.attempts) : OpenReturn(a)
    \/ \E a \in 1..Len(db.attempts) : CreateTableReturn(a)
    \/ \E a \in 1..Len(db.attempts) : AttemptFail(a)
    \/ \E o \in 1..Len(db.ops) : OpGetsHandle(o)
    \/ \E o \in 1..Len(db.ops) : OpSeesFailure(o)
    \/ \E o \in 1..Len(db.ops) : OpSqlReturn(o)

SpecDb == InitDb /\ [][NextDb]_vars

AttemptsIn(states) ==
    { a \in 1..Len(db.attempts) : db.attempts[a] \in states }

HasHandle(o) ==
    \/ db.ops[o].pc = "executeSql"
    \/ db.ops[o].pc = "returned"

\* C30: at most one attempt succeeds, and every attempt before it failed
\* (the database is opened and the schema created once per successful
\* initialisation); every function that has the handle has the handle of
\* that attempt, and has it only when the three tables exist; dbPromise
\* never holds a rejected promise, so a call after a failure starts a new
\* attempt; and a function throws at its await only when the attempt it
\* awaited failed
C30_OneInitialisationSharedHandle ==
    /\ Cardinality(AttemptsIn({"resolved"})) <= 1
    /\ Cardinality(AttemptsIn({"opening"} \cup Tables)) <= 1
    /\ \A a \in 1..Len(db.attempts) :
          a < Len(db.attempts) => db.attempts[a] = "rejected"
    /\ db.promise # 0 =>
          (db.promise = Len(db.attempts)
              /\ db.attempts[db.promise] # "rejected")
    /\ (db.promise = 0 /\ db.attempts # <<>>) =>
          db.attempts[Len(db.attempts)] = "rejected"
    /\ \A o \in 1..Len(db.ops) :
          /\ HasHandle(o) =>
                (db.attempts[db.ops[o].attempt] = "resolved"
                    /\ db.tables = Tables)
          /\ db.ops[o].pc = "threw" =>
                db.attempts[db.ops[o].attempt] = "rejected"
          /\ \A q \in 1..Len(db.ops) :
                (HasHandle(o) /\ HasHandle(q)) =>
                    db.ops[o].attempt = db.ops[q].attempt

\* the first attempt failed with a caller awaiting it, that caller threw,
\* and two later callers share the handle of the second attempt
C30_Witness ==
    /\ Len(db.attempts) = 2
    /\ db.attempts[1] = "rejected"
    /\ db.attempts[2] = "resolved"
    /\ Len(db.ops) = 3
    /\ db.ops[1].pc = "threw"
    /\ db.ops[2].attempt = 2 /\ HasHandle(2)
    /\ db.ops[3].attempt = 2 /\ HasHandle(3)

====
